---- MODULE Spec2Model ----
(***************************************************************************)
(* Verification model of the silhouette directory service:                 *)
(*   - the authorization gate (auth interceptor, AuthorizeRequest, the     *)
(*     handlers' own authorization steps),                                 *)
(*   - the record-level field cryptors (phone, address, profile),          *)
(*   - the record stores, the xref store and GetCompleteProfile.           *)
(* Each subsystem has its own specification over the shared variables.     *)
(***************************************************************************)
EXTENDS Integers, Sequences, FiniteSets, Bags, TLC

VARIABLES
    azAuth,     \* AuthorizeRequest: the *AuthContext argument
    azOwner,    \* AuthorizeRequest: the requestedUsername argument
    azResult,   \* AuthorizeRequest: "none" before the call, then its result
    gPc,        \* gate: "idle", "handler" (interceptor called the handler), "done"
    gIn,        \* gate: what the interceptor was called with
    gWhy,       \* gate: the return statement the interceptor left through
    gCode,      \* gate: status code of the call ("pending" while in the handler)
    gCtx,       \* gate: the AuthContext put into the handler's context
    gOwner,     \* gate: the username field of the request the handler reads
    gStep,      \* gate: outcome of the handler's authorization step
    cKind,      \* cryptor: "phone", "address" or "profile" record
    cOrig,      \* cryptor: the record as first handed in
    cRec,       \* cryptor: the caller's record, field -> sql.NullString
    cBefore,    \* cryptor: the record as it was when the running call began
    cOp,        \* cryptor: the record operation in progress, or "none"
    cUnits,     \* cryptor: field -> the goroutines started for it and those still running
    cCh,        \* cryptor: field -> buffer of the field's result channel
    cErrCh,     \* cryptor: errCh, a bag of the fields an error was sent for
    cFaults,    \* cryptor: the fields whose unit the environment made fail
    cHist,      \* cryptor: the record operations that returned, in order
    sDb,        \* store: the tables profile, address, phone and the two xrefs
    sBefore,    \* store: the tables as they were when the call began
    sPc,        \* store: "idle", "decrypting" (GetCompleteProfile waits), "done"
    sCall,      \* store: the operation called and its arguments
    sRows,      \* store: the rows FindProfileAddressPhoneRows returned
    sTasks,     \* store: the decryption goroutines still running
    sOut,       \* store: what the goroutines put on the result channels
    sErrs,      \* store: the goroutines whose error sits in errCh
    sDecrypts,  \* store: how often each record key was handed to a cryptor
    sResult,    \* store: what the call returned
    pDb,        \* profiles: the rows of table profile
    pCalls      \* profiles: the CreateProfile calls, each with its position

azVars == <<azAuth, azOwner, azResult>>

gVars == <<gPc, gIn, gWhy, gCode, gCtx, gOwner, gStep>>

cVars == <<cKind, cOrig, cRec, cBefore, cOp, cUnits, cCh, cErrCh, cFaults, cHist>>

sVars == <<sDb, sBefore, sPc, sCall, sRows, sTasks, sOut, sErrs, sDecrypts, sResult>>

pVars == <<pDb, pCalls>>

vars == <<azVars, gVars, cVars, sVars, pVars>>

----------------------------------------------------------------------------
(* Strings.  A Go string is modelled as a sequence of characters over a    *)
(* small alphabet: a lower-case letter, its upper-case form, the space,    *)
(* the tab, the vertical tab (U+000B, white space and control character),  *)
(* a control character (U+0001), "blk", which stands for a run of 999      *)
(* letters 'x' (so that lengths beyond 1000 bytes are reachable), and      *)
(* "wide", a run of 501 two-byte letters.                                  *)

MaxStrLen == 2

BlockWidth == 999

WideRunes == 501

Chars == {"a", "A", "sp", "tab", "vt", "ctl", "blk", "wide"}

Strings == UNION {[1..n -> Chars] : n \in 0..MaxStrLen}

\* len(s) in bytes
RECURSIVE StrLen(_)
StrLen(s) ==
    IF s = <<>> THEN 0
    ELSE (CASE Head(s) = "blk"  -> BlockWidth
            [] Head(s) = "wide" -> 2 * WideRunes
            [] OTHER            -> 1) + StrLen(Tail(s))

\* utf8.RuneCountInString(s)
RECURSIVE RuneCount(_)
RuneCount(s) ==
    IF s = <<>> THEN 0
    ELSE (CASE Head(s) = "blk"  -> BlockWidth
            [] Head(s) = "wide" -> WideRunes
            [] OTHER            -> 1) + RuneCount(Tail(s))

\* unicode.IsSpace on the alphabet
IsSpace(c) == c \in {"sp", "tab", "vt"}

RECURSIVE TrimLeft(_)
TrimLeft(s) ==
    IF s # <<>> /\ IsSpace(Head(s)) THEN TrimLeft(Tail(s)) ELSE s

RECURSIVE TrimRight(_)
TrimRight(s) ==
    IF s # <<>> /\ IsSpace(s[Len(s)])
    THEN TrimRight(SubSeq(s, 1, Len(s) - 1))
    ELSE s

\* strings.TrimSpace
TrimSpace(s) == TrimRight(TrimLeft(s))

\* unicode.IsControl on the alphabet
IsControl(c) == c \in {"ctl", "tab", "vt"}

containsControlChars(s) ==
    \E i \in 1..Len(s) : IsControl(s[i]) /\ s[i] # "tab"

MaxSafeLen == 1000

isSafeNonEmpty(s) == s # <<>>

isSafeForComparison(s) ==
    /\ s # <<>>
    /\ ~(StrLen(s) > MaxSafeLen)
    /\ ~containsControlChars(s)

----------------------------------------------------------------------------
(* Scopes, claims and the authorization decision.                          *)

ScopePhone      == "w:silhouette:phone:*"
ScopeAddress    == "w:silhouette:address:*"
InlineAll       == "w:silouhette:*"
InlinePhone     == "w:silouhette:phone:*"
InlineAddress   == "w:silouhette:address:*"

ScopeNames == {ScopePhone, ScopeAddress, InlineAll, InlinePhone, InlineAddress}

\* the scope sets a token may carry (Claims.MapScopes)
UserScopeSets ==
    {{}, {ScopePhone}, {ScopeAddress}, {InlineAll}, {InlinePhone},
     {InlineAddress}, {ScopePhone, InlineAddress}}

MaxReqLen == 2

\* the required-scope lists a policy may declare
RequiredScopeLists ==
    {r \in UNION {[1..n -> {ScopePhone, ScopeAddress, InlinePhone}] : n \in 0..MaxReqLen} :
        \A i, j \in 1..Len(r) : i < j => r[i] # r[j]}

hasRequiredScopesAll(requiredScopes, userScopes) ==
    \A i \in 1..Len(requiredScopes) : requiredScopes[i] \in userScopes

\* the loop of hasRequiredScopes: true on the first required scope the user has
RECURSIVE hasRequiredScopes(_, _)
hasRequiredScopes(requiredScopes, userScopes) ==
    IF requiredScopes = <<>> THEN FALSE
    ELSE IF Head(requiredScopes) \in userScopes THEN TRUE
    ELSE hasRequiredScopes(Tail(requiredScopes), userScopes)

Subjects == {<<"a">>, <<"A">>, <<"sp", "a">>, <<"a", "ctl">>}

\* jwt.Claims as far as the gate reads them; NilClaims is the nil *jwt.Claims
UserClaimsSet == [isNil : {FALSE}, Subject : Subjects, Scopes : UserScopeSets]

NilClaims == [isNil |-> TRUE, Subject |-> <<>>, Scopes |-> {}]

\* AuthContext as the interceptor builds it; UserClaims is Nil on the
\* service-only path
AuthContexts ==
    [RequiredScopes : RequiredScopeLists,
     UserClaims : UserClaimsSet \cup {NilClaims},
     SelfAccessAllowed : BOOLEAN]

\* strings.ToLower on the alphabet
ToLower(s) == [i \in 1..Len(s) |-> IF s[i] = "A" THEN "a" ELSE s[i]]

AuthorizeRequestFold(auth, requestedUsername) ==
    IF auth.UserClaims.isNil THEN "Panic"
    ELSE IF hasRequiredScopes(auth.RequiredScopes, auth.UserClaims.Scopes) THEN "Allow"
    ELSE IF ~auth.SelfAccessAllowed THEN "DenyNoSelfAccess"
    ELSE IF ~isSafeForComparison(TrimSpace(requestedUsername)) THEN "DenyUnsafe"
    ELSE IF ToLower(auth.UserClaims.Subject) # ToLower(TrimSpace(requestedUsername))
         THEN "DenyMismatch"
    ELSE "Allow"

\* AuthorizeRequest: nil on allow, otherwise one of its three errors; a nil
\* UserClaims is dereferenced by MapScopes (runtime panic)
AuthorizeRequest(auth, requestedUsername) ==
    IF auth.UserClaims.isNil THEN "Panic"
    ELSE IF hasRequiredScopes(auth.RequiredScopes, auth.UserClaims.Scopes) THEN "Allow"
    ELSE IF ~auth.SelfAccessAllowed THEN "DenyNoSelfAccess"
    ELSE IF ~isSafeForComparison(TrimSpace(requestedUsername)) THEN "DenyUnsafe"
    ELSE IF auth.UserClaims.Subject # TrimSpace(requestedUsername) THEN "DenyMismatch"
    ELSE "Allow"

Denials == {"DenyNoSelfAccess", "DenyUnsafe", "DenyMismatch"}

----------------------------------------------------------------------------
(* The authorization gate: the unary interceptor and the handlers'        *)
(* authorization steps.                                                    *)

\* the services registered on the gRPC server and a message descriptor that
\* lives in the same registry
Services == {"Profiles", "Addresses", "Phones"}

Messages == {"Profile"}

MethodsOf(svc) ==
    CASE svc = "Profiles"  -> {"CreateProfile", "GetProfile", "UpdateProfile"}
      [] svc = "Addresses" -> {"CreateAddress", "UpdateAddress", "DeleteAddress"}
      [] svc = "Phones"    -> {"CreatePhone", "UpdatePhone", "DeletePhone"}
      [] OTHER             -> {}

Handlers == UNION {MethodsOf(svc) : svc \in Services}

\* info.FullMethod as a sequence of tokens; "/" is the separator byte
WellFormedMethods ==
    UNION {{<<"/", svc, "/", m>> : m \in MethodsOf(svc)} : svc \in Services}

FullMethods ==
    WellFormedMethods \cup
    {<<>>,
     <<"Phones", "/", "DeletePhone">>,
     <<"/", "Phones">>,
     <<"/", "Phones", "/", "DeletePhone", "/", "DeletePhone">>,
     <<"/", "Unknown", "/", "DeletePhone">>,
     <<"/", "Profile", "/", "GetProfile">>,
     <<"/", "Phones", "/", "GetProfile">>}

\* strings.Split(s, "/")
RECURSIVE Split(_)
Split(s) ==
    IF \A i \in 1..Len(s) : s[i] # "/" THEN <<s>>
    ELSE LET i == CHOOSE k \in 1..Len(s) :
                      s[k] = "/" /\ \A j \in 1..(k - 1) : s[j] # "/"
         IN  <<SubSeq(s, 1, i - 1)>> \o Split(SubSeq(s, i + 1, Len(s)))

\* a part of the split as a name
PartName(part) == IF part = <<>> THEN "" ELSE part[1]

parseFullMethod(fullMethod) ==
    IF Len(fullMethod) = 0 \/ fullMethod[1] # "/" THEN <<"", "">>
    ELSE LET parts == Split(fullMethod)
         IN  IF Len(parts) # 3 THEN <<"", "">>
             ELSE <<PartName(parts[2]), PartName(parts[3])>>

\* protoregistry.GlobalFiles.FindDescriptorByName
FindDescriptorByName(name) ==
    IF name \in Services THEN "service"
    ELSE IF name \in Messages THEN "message"
    ELSE "notFound"

\* the policy a method declares
GateRequired == {<<>>, <<ScopePhone>>, <<ScopeAddress, ScopePhone>>}

Policies ==
    [RequiredScopes : GateRequired,
     SelfAccessAllowed : BOOLEAN,
     S2SOnlyAllowed : BOOLEAN]

NoPolicy ==
    [RequiredScopes |-> <<>>, SelfAccessAllowed |-> FALSE, S2SOnlyAllowed |-> FALSE]

\* what methodDesc.Options() hands back: a value whose dynamic type is not
\* *api.AuthConfig, a nil *api.AuthConfig, one without the extension, one
\* whose extension is of another type, or one that carries a policy; and
\* the google.protobuf.MethodOptions message of a method that declares a
\* policy, with the policy in its extension field
OptionKinds == {"otherType", "nil", "noExtension", "badExtension"}

MethodOptions ==
    {[kind |-> k, policy |-> NoPolicy] : k \in OptionKinds} \cup
    {[kind |-> "policy", policy |-> p] : p \in Policies} \cup
    {[kind |-> "methodOptions", policy |-> p] : p \in Policies}

NoOptions == [kind |-> "nil", policy |-> NoPolicy]

\* getAuthConfig: err is "none", "error" or "panic" (the unchecked type
\* assertion on the options)
getAuthConfig(fullMethod, opts) ==
    LET names == parseFullMethod(fullMethod)
        fail  == [err |-> "error", policy |-> NoPolicy]
    IN  IF FindDescriptorByName(names[1]) = "notFound" THEN fail
        ELSE IF FindDescriptorByName(names[1]) # "service" THEN fail
        ELSE IF names[2] \notin MethodsOf(names[1]) THEN fail
        ELSE IF opts.kind \in {"otherType", "methodOptions"}
             THEN [err |-> "panic", policy |-> NoPolicy]
        ELSE IF opts.kind = "nil" THEN fail
        ELSE IF opts.kind \in {"policy", "badExtension"}
             THEN IF opts.kind = "policy"
                  THEN [err |-> "none", policy |-> opts.policy]
                  ELSE fail
        ELSE fail

\* the service credential in the "service-authorization" metadata: absent,
\* or a token the s2s verifier judges
SvcTokenKinds == {"malformed", "badSignature", "stale", "wrongAudience", "good"}

SvcScopeSets == {{}, {ScopePhone}, {ScopeAddress}}

SvcClaimsSet == [Subject : {"gateway"}, Scopes : SvcScopeSets]

NoSvcToken ==
    [present |-> FALSE, kind |-> "malformed",
     Claims |-> [Subject |-> "gateway", Scopes |-> {}]]

SvcTokens ==
    {NoSvcToken} \cup
    {[present |-> TRUE, kind |-> k,
      Claims |-> [Subject |-> "gateway", Scopes |-> {ScopePhone}]] :
        k \in SvcTokenKinds \ {"good"}} \cup
    {[present |-> TRUE, kind |-> "good", Claims |-> c] : c \in SvcClaimsSet}

BuildAuthorizedAnyScopes(allowedScopes, token) ==
    token.kind = "good"

\* s2s.BuildAuthorized: the token parses, its signature verifies, it is
\* current and addressed to this service, and it holds an allowed scope
BuildAuthorized(allowedScopes, token) ==
    /\ token.kind = "good"
    /\ \E i \in 1..Len(allowedScopes) : allowedScopes[i] \in token.Claims.Scopes

\* the instant of the call, in Unix seconds
NowUnix == 3

ClockSkew == 2

MaxAhead == 3

MaxBehind == 1

MaxTick == 1

ServiceProfile == "silhouette"

AudienceSets == {{ServiceProfile}, {"gallery"}}

GateSubjects == {<<"a">>}

GateScopeSets == {{}, {ScopePhone}, {InlinePhone}}

\* the claims of a user access token
GateUserClaims ==
    [isNil : {FALSE}, Subject : GateSubjects, Scopes : GateScopeSets,
     Audiences : AudienceSets,
     IssuedAt : NowUnix..(NowUnix + MaxAhead),
     Expires : (NowUnix - MaxBehind)..(NowUnix + MaxTick)]

SomeClaims ==
    [isNil |-> FALSE, Subject |-> <<"a">>, Scopes |-> {ScopePhone},
     Audiences |-> {ServiceProfile}, IssuedAt |-> NowUnix, Expires |-> NowUnix]

NoUserToken ==
    [present |-> FALSE, parses |-> FALSE, signed |-> FALSE, Claims |-> SomeClaims]

\* the "authorization" metadata: absent, unparseable, badly signed, or a
\* signed token with its claims
\* what a token whose signature does not verify may claim
ForgedClaims ==
    {c \in GateUserClaims :
        /\ c.Scopes = {ScopePhone}
        /\ c.IssuedAt \in {NowUnix, NowUnix + MaxAhead}
        /\ c.Expires \in {NowUnix - MaxBehind, NowUnix + MaxTick}}

UserTokens ==
    {NoUserToken,
     [present |-> TRUE, parses |-> FALSE, signed |-> FALSE, Claims |-> SomeClaims]} \cup
    {[present |-> TRUE, parses |-> TRUE, signed |-> FALSE, Claims |-> c] :
        c \in ForgedClaims} \cup
    {[present |-> TRUE, parses |-> TRUE, signed |-> TRUE, Claims |-> c] :
        c \in GateUserClaims}

VerifySignatureSkipped(userJot) == TRUE

\* iam.VerifySignature
VerifySignature(userJot) == userJot.signed

IssuedInFutureNoSkew(now, claims) == now < claims.IssuedAt

\* the issued-at check, with its padding against clock drift
IssuedInFuture(now, claims) == now + ClockSkew < claims.IssuedAt

ExpiredAfterSkew(now, claims) == now > claims.Expires + ClockSkew

\* the expiry check
Expired(now, claims) == now > claims.Expires

hasRequiredAudienceAny(requiredAudience, userAudience) ==
    userAudience # {}

hasRequiredAudience(requiredAudience, userAudience) ==
    requiredAudience \in userAudience

ServiceOnlyNeverRefused(authConfig) == FALSE

\* the condition of both checks on a missing access token
ServiceOnlyRefused(authConfig) == ~authConfig.S2SOnlyAllowed

NoContext ==
    [RequiredScopes |-> <<>>, UserClaims |-> NilClaims,
     SvcClaims |-> [Subject |-> "gateway", Scopes |-> {}],
     SelfAccessAllowed |-> FALSE]

ServiceOnlyContextAsUser(authConfig, svcClaims) ==
    [RequiredScopes |-> authConfig.RequiredScopes,
     UserClaims |-> SomeClaims,
     SvcClaims |-> svcClaims,
     SelfAccessAllowed |-> authConfig.SelfAccessAllowed]

\* the AuthContext of a service-only call
ServiceOnlyContext(authConfig, svcClaims) ==
    [RequiredScopes |-> authConfig.RequiredScopes,
     UserClaims |-> NilClaims,
     SvcClaims |-> svcClaims,
     SelfAccessAllowed |-> authConfig.SelfAccessAllowed]

UserContextDefaultFlag(authConfig, userClaims, svcClaims) ==
    [RequiredScopes |-> authConfig.RequiredScopes,
     UserClaims |-> userClaims,
     SvcClaims |-> svcClaims,
     SelfAccessAllowed |-> FALSE]

\* the AuthContext of a call on behalf of a user
UserContext(authConfig, userClaims, svcClaims) ==
    [RequiredScopes |-> authConfig.RequiredScopes,
     UserClaims |-> userClaims,
     SvcClaims |-> svcClaims,
     SelfAccessAllowed |-> authConfig.SelfAccessAllowed]

\* what a return of the interceptor amounts to
Reject(why, code) ==
    [why |-> why, code |-> code, invoked |-> FALSE, ctx |-> NoContext]

Admit(why, ctx) ==
    [why |-> why, code |-> "pending", invoked |-> TRUE, ctx |-> ctx]

\* the interceptor returned by Unary; in.tick is the number of seconds the
\* clock advanced between its two readings
Unary(in) ==
    LET cfg        == getAuthConfig(in.fullMethod, in.opts)
        authConfig == cfg.policy
        userJot    == in.userToken
    IN
    IF ~in.hasMD THEN Reject("noMetadata", "Unauthenticated")
    ELSE IF cfg.err = "panic" THEN Reject("optionsPanic", "Panic")
    ELSE IF cfg.err # "none" THEN Reject("noAuthConfig", "Internal")
    ELSE IF ~in.svcToken.present THEN Reject("indexPanic", "Panic")
    ELSE IF ~BuildAuthorized(authConfig.RequiredScopes, in.svcToken)
         THEN Reject("serviceToken", "Unauthenticated")
    ELSE IF ServiceOnlyRefused(authConfig) /\ ~userJot.present
         THEN Reject("noAccessToken", "Unauthenticated")
    ELSE IF ~userJot.present
         THEN IF ServiceOnlyRefused(authConfig)
              THEN Reject("noAccessToken", "Unauthenticated")
              ELSE Admit("serviceOnly",
                         ServiceOnlyContext(authConfig, in.svcToken.Claims))
    ELSE IF ~userJot.parses THEN Reject("parse", "Unauthenticated")
    ELSE IF ~VerifySignature(userJot) THEN Reject("signature", "Unauthenticated")
    ELSE IF IssuedInFuture(NowUnix, userJot.Claims)
         THEN Reject("issuedAt", "Unauthenticated")
    ELSE IF Expired(NowUnix + in.tick, userJot.Claims)
         THEN Reject("expired", "Unauthenticated")
    ELSE IF ~hasRequiredAudience(ServiceProfile, userJot.Claims.Audiences)
         THEN Reject("audience", "PermissionDenied")
    ELSE Admit("user",
               UserContext(authConfig, userJot.Claims, in.svcToken.Claims))

\* the handlers' authorization steps: "Proceed" into the body of the
\* handler, "PermissionDenied", or "Panic" when the audit log line
\* dereferences a nil UserClaims

CreateProfileAuthz(auth, username) == "Proceed"

GetProfileAuthz(auth, username) ==
    IF auth.UserClaims.isNil THEN "Panic"
    ELSE IF AuthorizeRequest(auth, username) # "Allow" THEN "PermissionDenied"
    ELSE "Proceed"

UpdateProfileAuthz(auth, username) ==
    IF auth.UserClaims.isNil THEN "Panic"
    ELSE IF AuthorizeRequest(auth, username) # "Allow" THEN "PermissionDenied"
    ELSE "Proceed"

CreateAddressAuthz(auth, username) ==
    IF auth.UserClaims.isNil THEN "Panic"
    ELSE IF AuthorizeRequest(auth, username) # "Allow" THEN "PermissionDenied"
    ELSE "Proceed"

UpdateAddressAuthz(auth, username) ==
    IF auth.UserClaims.isNil THEN "Panic"
    ELSE LET userScopes == auth.UserClaims.Scopes
             isScoped   == InlineAll \in userScopes \/ InlineAddress \in userScopes
         IN  IF ~isScoped /\ ~auth.SelfAccessAllowed THEN "PermissionDenied"
             ELSE IF ~isScoped /\ auth.UserClaims.Subject # TrimSpace(username)
                  THEN "PermissionDenied"
             ELSE "Proceed"

DeleteAddressAuthz(auth, username) ==
    IF auth.UserClaims.isNil THEN "Panic"
    ELSE LET userScopes == auth.UserClaims.Scopes
             isScoped   == InlineAll \in userScopes \/ InlineAddress \in userScopes
         IN  IF ~isScoped /\ ~auth.SelfAccessAllowed THEN "PermissionDenied"
             ELSE IF ~isScoped /\ auth.UserClaims.Subject # TrimSpace(username)
                  THEN "PermissionDenied"
             ELSE "Proceed"

CreatePhoneAuthz(auth, username) ==
    IF auth.UserClaims.isNil THEN "Panic"
    ELSE LET userScopes == auth.UserClaims.Scopes
             isScoped   == InlineAll \in userScopes \/ InlinePhone \in userScopes
         IN  IF ~isScoped /\ ~auth.SelfAccessAllowed THEN "PermissionDenied"
             ELSE IF ~isScoped /\ auth.UserClaims.Subject # TrimSpace(username)
                  THEN "PermissionDenied"
             ELSE "Proceed"

UpdatePhoneAuthz(auth, username) ==
    IF auth.UserClaims.isNil THEN "Panic"
    ELSE LET userScopes == auth.UserClaims.Scopes
             isScoped   == InlineAll \in userScopes \/ InlinePhone \in userScopes
         IN  IF ~isScoped /\ ~auth.SelfAccessAllowed THEN "PermissionDenied"
             ELSE IF ~isScoped /\ auth.UserClaims.Subject # TrimSpace(username)
                  THEN "PermissionDenied"
             ELSE "Proceed"

DeletePhoneAuthzInline(auth, username) == UpdatePhoneAuthz(auth, username)

DeletePhoneAuthz(auth, username) ==
    IF auth.UserClaims.isNil THEN "Panic"
    ELSE IF AuthorizeRequest(auth, username) # "Allow" THEN "PermissionDenied"
    ELSE "Proceed"

----------------------------------------------------------------------------
(* The field cryptors.  A field is a sql.NullString; its String is the     *)
(* empty sequence, a plaintext, or <<"enc">> \o v for the ciphertext of v. *)

Empty == <<>>

Plain == <<"x">>

Enc(v) == <<"enc">> \o v

IsCipher(v) == v # <<>> /\ Head(v) = "enc"

Dec(v) == Tail(v)

Present(v) == [Valid |-> TRUE, String |-> v]

Absent == [Valid |-> FALSE, String |-> Empty]

FieldsOf(kind) ==
    CASE kind = "phone"   -> {"CountryCode", "PhoneNumber", "Extension", "PhoneType"}
      [] kind = "address" -> {"Slug", "AddressLine1", "AddressLine2", "City",
                              "State", "Zip", "Country"}
      [] kind = "profile" -> {"Username", "NickName"}

\* per field: when its unit is launched ("valid": the field is Valid;
\* "nonEmpty": the string is not empty; "validNonEmpty": both), what the
\* else branch does ("sendEmpty": puts "" on the field's channel; "error":
\* puts an error on errCh; "nothing"), and how the result is assigned
\* ("valid": {String: <-ch, Valid: true}; "optional": by the ok of the
\* receive)
Step(cond, else, commit) == [cond |-> cond, else |-> else, commit |-> commit]

Mandatory == Step("valid", "error", "valid")

EncryptPhonePlan ==
    [CountryCode |-> Step("valid", "sendEmpty", "valid"),
     PhoneNumber |-> Mandatory,
     Extension   |-> Step("valid", "sendEmpty", "valid"),
     PhoneType   |-> Mandatory]

DecryptPhonePlan ==
    [CountryCode |-> Mandatory,
     PhoneNumber |-> Mandatory,
     Extension   |-> Step("valid", "sendEmpty", "valid"),
     PhoneType   |-> Mandatory]

EncryptAddressPlan ==
    [Slug         |-> Step("nonEmpty", "error", "valid"),
     AddressLine1 |-> Mandatory,
     AddressLine2 |-> Step("validNonEmpty", "nothing", "optional"),
     City         |-> Mandatory,
     State        |-> Mandatory,
     Zip          |-> Mandatory,
     Country      |-> Mandatory]

DecryptAddressPlan ==
    [Slug         |-> Step("nonEmpty", "error", "valid"),
     AddressLine1 |-> Mandatory,
     AddressLine2 |-> Step("valid", "sendEmpty", "optional"),
     City         |-> Mandatory,
     State        |-> Mandatory,
     Zip          |-> Mandatory,
     Country      |-> Mandatory]

EncryptProfilePlan ==
    [Username |-> Step("nonEmpty", "error", "valid"),
     NickName |-> Step("validNonEmpty", "nothing", "optional")]

DecryptProfilePlan ==
    [Username |-> Step("nonEmpty", "error", "valid"),
     NickName |-> Step("validNonEmpty", "nothing", "optional")]

\* addressStore.decryptAddress: the slug is not decrypted; the record it
\* returns is a new one
decryptAddressPlan ==
    [Slug         |-> Step("never", "nothing", "valid"),
     AddressLine1 |-> Mandatory,
     AddressLine2 |-> Step("valid", "sendEmpty", "valid"),
     City         |-> Mandatory,
     State        |-> Mandatory,
     Zip          |-> Mandatory,
     Country      |-> Mandatory]

PlanOf(op) ==
    CASE op = "EncryptPhone"   -> EncryptPhonePlan
      [] op = "DecryptPhone"   -> DecryptPhonePlan
      [] op = "EncryptAddress" -> EncryptAddressPlan
      [] op = "DecryptAddress" -> DecryptAddressPlan
      [] op = "EncryptProfile" -> EncryptProfilePlan
      [] op = "DecryptProfile" -> DecryptProfilePlan
      [] op = "decryptAddress" -> decryptAddressPlan

IsEncrypt(op) == op \in {"EncryptPhone", "EncryptAddress", "EncryptProfile"}

\* the condition under which the field's goroutine is started
Launches(step, field) ==
    CASE step.cond = "valid"         -> field.Valid
      [] step.cond = "nonEmpty"      -> field.String # Empty
      [] step.cond = "validNonEmpty" -> field.Valid /\ field.String # Empty
      [] step.cond = "never"         -> FALSE

\* the go statements executed for a field: one under the field's
\* condition; decryptAddress has a further one for the state, under no
\* condition
UnitsStarted(op, f, field) ==
    (IF Launches(PlanOf(op)[f], field) THEN 1 ELSE 0)
    + (IF op = "decryptAddress" /\ f = "State" THEN 1 ELSE 0)

NoUnits == [started |-> 0, running |-> 0]

\* make(chan string, 1)
ChanCapacity == 1

\* the fields whose else branch reports an error
MissingFields(op, rec) ==
    {f \in DOMAIN rec : ~Launches(PlanOf(op)[f], rec[f]) /\ PlanOf(op)[f].else = "error"}

\* the assignment of one field after the channels are closed
Assigned(step, buffer) ==
    IF step.commit = "optional"
    THEN IF buffer # <<>> THEN Present(buffer[1]) ELSE Absent
    ELSE Present(IF buffer # <<>> THEN buffer[1] ELSE Empty)

SendErrorOverwriting(errCh, field) == SetToBag({field})

\* errCh <- err: one more error in the buffer
SendError(errCh, field) == errCh (+) SetToBag({field})

\* the else branches of the absent mandatory fields, one send each
RECURSIVE SendErrors(_, _)
SendErrors(errCh, fields) ==
    IF fields = {} THEN errCh
    ELSE LET f == CHOOSE x \in fields : TRUE
         IN  SendErrors(SendError(errCh, f), fields \ {f})

\* make(chan error, n): one slot per field of the record
ErrCapacity(kind) ==
    CASE kind = "phone"   -> 4
      [] kind = "address" -> 7
      [] kind = "profile" -> 2

\* decryptAddress has six fields to decrypt and an errCh of six slots
ErrCapacityOf(op, kind) == IF op = "decryptAddress" THEN 6 ELSE ErrCapacity(kind)

CryptReturnPartial(op, rec, ch, errCh) ==
    [err |-> BagCardinality(errCh) > 0,
     rec |-> [f \in DOMAIN rec |->
                 IF ch[f] # <<>> THEN Assigned(PlanOf(op)[f], ch[f]) ELSE rec[f]]]

\* from wg.Wait() to the return: any error on errCh is returned before a
\* field is assigned
CryptReturn(op, rec, ch, errCh) ==
    IF BagCardinality(errCh) > 0
    THEN [err |-> TRUE, rec |-> rec]
    ELSE [err |-> FALSE,
          rec |-> [f \in DOMAIN rec |-> Assigned(PlanOf(op)[f], ch[f])]]

\* the records handed to the cryptors
PhoneRecords ==
    [CountryCode : {Present(Plain), Absent},
     PhoneNumber : {Present(Plain), Absent},
     Extension   : {Present(Plain), Present(Empty), Absent},
     PhoneType   : {Present(Plain), Absent}]

AddressRecords ==
    [Slug         : {Present(Plain), Present(Empty)},
     AddressLine1 : {Present(Plain), Absent},
     AddressLine2 : {Present(Plain), Present(Empty), Absent},
     City         : {Present(Plain), Absent},
     State        : {Present(Plain)},
     Zip          : {Present(Plain)},
     Country      : {Present(Plain)}]

ProfileRecords ==
    [Username : {Present(Plain), Present(Empty)},
     NickName : {Present(Plain), Present(Empty), Absent}]

RecordsOf(kind) ==
    CASE kind = "phone"   -> PhoneRecords
      [] kind = "address" -> AddressRecords
      [] kind = "profile" -> ProfileRecords

Kinds == {"phone", "address", "profile"}

MaxOps == 2

CryptIdle ==
    /\ cKind = "none"
    /\ cOrig = <<>>
    /\ cRec = <<>>
    /\ cBefore = <<>>
    /\ cOp = "off"
    /\ cUnits = <<>>
    /\ cCh = <<>>
    /\ cErrCh = EmptyBag
    /\ cFaults = {}
    /\ cHist = <<>>

----------------------------------------------------------------------------
(* The stores.  A cryptor call as a function of the record and of the      *)
(* fields whose unit fails; the tables; the queries.                       *)

\* the outcome of a whole record operation
RunCrypt(op, rec, faults) ==
    LET plan    == PlanOf(op)
        fails(f) == f \in faults \/ (~IsEncrypt(op) /\ ~IsCipher(rec[f].String))
        ch      == [f \in DOMAIN rec |->
                      IF Launches(plan[f], rec[f])
                      THEN IF fails(f) THEN <<>>
                           ELSE IF IsEncrypt(op) THEN <<Enc(rec[f].String)>>
                           ELSE <<Dec(rec[f].String)>>
                      ELSE IF plan[f].else = "sendEmpty" THEN <<Empty>> ELSE <<>>]
        errCh   == SetToBag(MissingFields(op, rec) \cup
                   {f \in DOMAIN rec : Launches(plan[f], rec[f]) /\ fails(f)})
    IN  CryptReturn(op, rec, ch, errCh)

\* indexer.ObtainBlindIndex
Idx(s) == <<"idx">> \o s

MaxAddresses == 2

MaxPhones == 3

\* a phone as CreatePhone builds it, with or without extension
PlainPhone(withExtension) ==
    [CountryCode |-> Present(Plain), PhoneNumber |-> Present(Plain),
     Extension |-> IF withExtension THEN Present(Plain) ELSE Absent,
     PhoneType |-> Present(Plain)]

PlainAddress(slug) ==
    [Slug |-> Present(slug), AddressLine1 |-> Present(Plain),
     AddressLine2 |-> Absent, City |-> Present(Plain), State |-> Present(Plain),
     Zip |-> Present(Plain), Country |-> Present(Plain)]

PlainProfile(username) ==
    [Username |-> Present(username), NickName |-> Absent]

\* table rows: their keys, their blind indexes, the encrypted columns and
\* updated_at, the time of the last write (0 for the rows that are there
\* from the start)
ProfileRow(n, username) ==
    [Uuid |-> <<"p", n>>, UserIndex |-> Idx(username), DarkMode |-> TRUE,
     UpdatedAt |-> 0,
     Fields |-> RunCrypt("EncryptProfile", PlainProfile(username), {}).rec]

AddressRow(n) ==
    [Uuid |-> <<"a", n>>, SlugIndex |-> Idx(<<"sa", ToString(n)>>),
     UpdatedAt |-> 0,
     Fields |-> RunCrypt("EncryptAddress", PlainAddress(<<"sa", ToString(n)>>), {}).rec]

PhoneRow(n, withExtension) ==
    [Uuid |-> <<"h", n>>, SlugIndex |-> Idx(<<"s", ToString(n)>>),
     UpdatedAt |-> 0,
     Fields |-> RunCrypt("EncryptPhone", PlainPhone(withExtension), {}).rec]

Xref(id, profile, other) == [Id |-> id, ProfileUuid |-> profile, OtherUuid |-> other]

OtherPhone == 9

\* the databases: the profile of "a" with its first addresses and phones,
\* possibly a second xref row for its first phone, whose extension may be
\* absent; the profile of "A" with one phone
Database(nAddr, nPhone, dup, ext) ==
    [profile |-> {ProfileRow(1, <<"a">>), ProfileRow(2, <<"A">>)},
     address |-> {AddressRow(n) : n \in 1..nAddr},
     phone   |-> {PhoneRow(n, n # 1 \/ ext) : n \in 1..nPhone}
                 \cup {PhoneRow(OtherPhone, TRUE)},
     profile_address |-> {Xref(n, <<"p", 1>>, <<"a", n>>) : n \in 1..nAddr},
     profile_phone   |-> {Xref(n, <<"p", 1>>, <<"h", n>>) : n \in 1..nPhone}
                         \cup {Xref(OtherPhone, <<"p", 2>>, <<"h", OtherPhone>>)}
                         \cup (IF dup /\ nPhone >= 1
                               THEN {Xref(OtherPhone + 1, <<"p", 1>>, <<"h", 1>>)}
                               ELSE {})]

Databases ==
    {Database(nAddr, nPhone, dup, ext) :
        nAddr \in 0..MaxAddresses, nPhone \in 0..MaxPhones,
        dup \in BOOLEAN, ext \in BOOLEAN}

\* FindProfileAddressPhoneRows: the inner joins of profile.sql
FindProfileAddressPhoneRows(db, index) ==
    {[Profile |-> p, Address |-> a, Phone |-> ph, pa |-> pa.Id, pp |-> pp.Id] :
        <<p, pa, a, pp, ph>> \in
            {t \in db.profile \X db.profile_address \X db.address
                   \X db.profile_phone \X db.phone :
                /\ t[1].UserIndex = index
                /\ t[2].ProfileUuid = t[1].Uuid
                /\ t[3].Uuid = t[2].OtherUuid
                /\ t[4].ProfileUuid = t[1].Uuid
                /\ t[5].Uuid = t[4].OtherUuid}}

\* FindPhoneByUser: the phone rows with the slug index that are linked to
\* the profile with the user index
FindPhoneByUser(db, slugIndex, userIndex) ==
    {ph \in db.phone :
        /\ ph.SlugIndex = slugIndex
        /\ \E pp \in db.profile_phone, pr \in db.profile :
              /\ pp.OtherUuid = ph.Uuid
              /\ pp.ProfileUuid = pr.Uuid
              /\ pr.UserIndex = userIndex}

\* phoneStore.GetUsersPhone; the matches all are the one row with the
\* (unique) slug index
GetUsersPhone(db, slug, username) ==
    LET found == FindPhoneByUser(db, Idx(slug), Idx(username))
    IN  IF found = {}
        THEN [err |-> "ErrNoRows", Uuid |-> <<>>, UpdatedAt |-> 0, Fields |-> <<>>]
        ELSE LET phone == CHOOSE ph \in found : TRUE
                 dec   == RunCrypt("DecryptPhone", phone.Fields, {})
             IN  IF dec.err
                 THEN [err |-> "decrypt", Uuid |-> <<>>, UpdatedAt |-> 0,
                       Fields |-> <<>>]
                 ELSE [err |-> "none", Uuid |-> phone.Uuid,
                       UpdatedAt |-> phone.UpdatedAt, Fields |-> dec.rec]

\* xrefStore.RemovePhoneXrefByPhone and phoneStore.DeletePhone
RemovePhoneXrefByPhone(db, phoneId) ==
    [db EXCEPT !.profile_phone = {x \in @ : x.OtherUuid # phoneId}]

DeletePhoneRow(db, uuid) ==
    [db EXCEPT !.phone = {ph \in @ : ph.Uuid # uuid}]

\* validate.IsValidUuid on the slugs of the model
IsValidUuid(slug) == Len(slug) = 2 /\ slug[1] \in {"s", "sa"}

\* the DeletePhone handler; xrefOk and deleteOk say whether the two delete
\* statements succeed
DeletePhone(db, auth, req, xrefOk, deleteOk) ==
    LET authz == DeletePhoneAuthz(auth, req.Username)
        phone == GetUsersPhone(db, TrimSpace(req.PhoneSlug), TrimSpace(req.Username))
    IN  IF authz = "Panic" THEN [code |-> "Panic", db |-> db]
        ELSE IF authz # "Proceed" THEN [code |-> "PermissionDenied", db |-> db]
        ELSE IF ~IsValidUuid(TrimSpace(req.PhoneSlug))
             THEN [code |-> "InvalidArgument", db |-> db]
        ELSE IF phone.err = "ErrNoRows" THEN [code |-> "NotFound", db |-> db]
        ELSE IF phone.err # "none" THEN [code |-> "Internal", db |-> db]
        ELSE IF ~xrefOk THEN [code |-> "Internal", db |-> db]
        ELSE IF ~deleteOk
             THEN [code |-> "Internal", db |-> RemovePhoneXrefByPhone(db, phone.Uuid)]
        ELSE [code |-> "OK",
              db |-> DeletePhoneRow(RemovePhoneXrefByPhone(db, phone.Uuid), phone.Uuid)]

\* validate.IsValidEmail: an address is not empty and holds neither white
\* space nor a control character
IsValidEmail(s) ==
    /\ s # <<>>
    /\ \A i \in 1..Len(s) : ~IsSpace(s[i]) /\ ~IsControl(s[i])

\* unicode.IsDigit on the characters of the model
IsDigit(c) == c \in {"x", "y"}

\* normalizePhoneNumber, normalizeCountryCode, normalizeExtension: the
\* digits of the string
normalizePhoneNumber(ph) == SelectSeq(ph, IsDigit)

\* ValidateCmd of the phone package: the username as it was sent is an
\* e-mail address; country code and phone number hold digits
PhoneValidateCmd(cmd) ==
    /\ IsValidEmail(cmd.Username)
    /\ normalizePhoneNumber(cmd.CountryCode) # <<>>
    /\ normalizePhoneNumber(cmd.PhoneNumber) # <<>>

\* the record the UpdatePhone handler hands to the store
BuildPhoneUpdate(record, req) ==
    LET countryCode == normalizePhoneNumber(TrimSpace(req.CountryCode))
        phoneNumber == normalizePhoneNumber(TrimSpace(req.PhoneNumber))
        extension   == IF Len(req.Extension) > 0
                       THEN normalizePhoneNumber(TrimSpace(req.Extension))
                       ELSE <<>>
    IN  [Uuid |-> record.Uuid, UpdatedAt |-> NowUnix,
         Fields |-> [CountryCode |-> [String |-> countryCode, Valid |-> countryCode # <<>>],
                     PhoneNumber |-> [String |-> phoneNumber, Valid |-> phoneNumber # <<>>],
                     Extension   |-> [String |-> extension, Valid |-> extension # <<>>],
                     PhoneType   |-> [String |-> req.PhoneType, Valid |-> req.PhoneType # <<>>]]]

\* an UPDATE without the WHERE clause
UpdatePhoneAnyRow(db, phone) ==
    [db EXCEPT !.phone = {[ph EXCEPT !.Fields = phone.Fields,
                                     !.UpdatedAt = phone.UpdatedAt] : ph \in @}]

\* the UPDATE of the phone with the primary key
UpdatePhoneRow(db, phone) ==
    [db EXCEPT !.phone = {IF ph.Uuid = phone.Uuid
                          THEN [ph EXCEPT !.Fields = phone.Fields,
                                          !.UpdatedAt = phone.UpdatedAt]
                          ELSE ph : ph \in @}]

\* phoneStore.UpdatePhone: EncryptPhone, then the UPDATE
StoreUpdatePhone(db, phone, faults, updateOk) ==
    LET enc == RunCrypt("EncryptPhone", phone.Fields, faults)
    IN  IF enc.err THEN [err |-> "encrypt", db |-> db]
        ELSE IF ~updateOk THEN [err |-> "connection", db |-> db]
        ELSE [err |-> "none", db |-> UpdatePhoneRow(db, [phone EXCEPT !.Fields = enc.rec])]

\* a handler that takes every request for a change
AlwaysChanged(record, updated) == FALSE

\* "check if update necessary" of the UpdatePhone handler: the normalised
\* fields of the request against the decrypted record (every phone of the
\* model is current, and so is every request)
PhoneUnchanged(record, updated) ==
    \A f \in DOMAIN record.Fields :
        updated.Fields[f].String = record.Fields[f].String

\* the api.Phone a handler answers with
PhoneMessage(uuid, record) ==
    [Uuid |-> uuid,
     CountryCode |-> record.Fields.CountryCode.String,
     PhoneNumber |-> record.Fields.PhoneNumber.String,
     Extension   |-> record.Fields.Extension.String,
     PhoneType   |-> record.Fields.PhoneType.String,
     UpdatedAt   |-> record.UpdatedAt]

NoMessage == <<>>

\* the UpdatePhone handler; the phone is looked up by the slug and the
\* username as they were sent; the answer of a write is made of the
\* normalised fields of the request; tried says whether phoneStore.UpdatePhone
\* was called
UpdatePhone(db, auth, req, faults, updateOk) ==
    LET authz   == UpdatePhoneAuthz(auth, req.Username)
        record  == GetUsersPhone(db, req.PhoneSlug, req.Username)
        updated == BuildPhoneUpdate(record, req)
        stored  == StoreUpdatePhone(db, updated, faults, updateOk)
        Fail(code) == [code |-> code, db |-> db, resp |-> NoMessage, tried |-> FALSE]
    IN  IF authz = "Panic" THEN Fail("Panic")
        ELSE IF authz # "Proceed" THEN Fail("PermissionDenied")
        ELSE IF ~PhoneValidateCmd(req) THEN Fail("InvalidArgument")
        ELSE IF ~IsValidUuid(TrimSpace(req.PhoneSlug)) THEN Fail("InvalidArgument")
        ELSE IF record.err = "ErrNoRows" THEN Fail("NotFound")
        ELSE IF record.err # "none" THEN Fail("Internal")
        ELSE IF PhoneUnchanged(record, updated)
             THEN [code |-> "OK", db |-> db, resp |-> PhoneMessage(record.Uuid, record),
                   tried |-> FALSE]
        ELSE IF stored.err # "none"
             THEN [code |-> "Internal", db |-> db, resp |-> NoMessage, tried |-> TRUE]
        ELSE [code |-> "OK", db |-> stored.db, resp |-> PhoneMessage(record.Uuid, updated),
              tried |-> TRUE]

\* the key of addressMap and of phoneMap
AddressKeyPerRow(record) == <<record.Address.Uuid, record.pp>>

AddressKey(record) == record.Address.Uuid

PhoneKey(record) == record.Phone.Uuid

\* the maps of GetCompleteProfile: under each key the columns of a row
\* with that key (all rows of one key carry the same columns)
addressMap(records) ==
    [k \in {AddressKey(r) : r \in records} |->
        (CHOOSE r \in records : AddressKey(r) = k).Address]

phoneMap(records) ==
    [k \in {PhoneKey(r) : r \in records} |->
        (CHOOSE r \in records : PhoneKey(r) = k).Phone]

\* errors.Is(err, sql.ErrNoRows): the error fmt.Errorf builds for an empty
\* result is no sql.ErrNoRows
IsErrNoRows(err) == err = "ErrNoRows"

\* the GetProfile handler on what GetCompleteProfile returned
GetProfileStatus(err) ==
    IF err = "OK" THEN "OK"
    ELSE IF IsErrNoRows(err) THEN "NotFound"
    ELSE "Internal"

\* the AuthContexts a handler is called with
StoreContexts ==
    [RequiredScopes : {<<ScopePhone>>},
     UserClaims : [isNil : {FALSE}, Subject : GateSubjects, Scopes : GateScopeSets]
                  \cup {NilClaims},
     SvcClaims : {[Subject |-> "gateway", Scopes |-> {ScopePhone}]},
     SelfAccessAllowed : BOOLEAN]

\* the phone slugs of a request: of the first phone of "a" (also with a
\* leading space), of the phone of "A", of no phone, and no UUID at all
SlugInputs ==
    {<<"s", "1">>, <<"sp", "s", "1">>, <<"s", ToString(OtherPhone)>>,
     <<"s", "0">>, <<"bad">>}

NoStoreCall == [op |-> "none"]

NoResult == [code |-> "none"]

NoOutput == [profile |-> EmptyBag, address |-> EmptyBag, phone |-> EmptyBag]

StoreIdle ==
    /\ sDb = <<>>
    /\ sBefore = <<>>
    /\ sPc = "off"
    /\ sCall = NoStoreCall
    /\ sRows = {}
    /\ sTasks = {}
    /\ sOut = NoOutput
    /\ sErrs = {}
    /\ sDecrypts = EmptyBag
    /\ sResult = NoResult

----------------------------------------------------------------------------
(* The profile handler CreateProfile and the profile store under it.  A    *)
(* profile record is its Uuid and its fields; a row adds the blind index.  *)

MaxCalls == 2

MinNickname == 2

MaxNickname == 50

ValidateNickname(nickname) ==
    LET n == TrimSpace(nickname)
    IN  /\ RuneCount(n) >= MinNickname
        /\ RuneCount(n) <= MaxNickname
        /\ \A i \in 1..Len(n) : ~IsControl(n[i])
        /\ ~\E i \in 1..(Len(n) - 1) : n[i] = "sp" /\ n[i + 1] = "sp"

ValidateCmd(cmd) ==
    /\ IsValidEmail(TrimSpace(cmd.Username))
    /\ (StrLen(TrimSpace(cmd.NickName)) > 0 => ValidateNickname(cmd.NickName))

\* the requests: usernames with and without surrounding white space, one
\* that is no address; with and without a nickname
ProfileUsernames == {<<"a">>, <<"A">>, <<"sp", "a">>, <<"sp">>}

ProfileNickNames == {<<>>, <<"a", "a">>, <<"a">>}

CreateProfileRequests == [Username : ProfileUsernames, NickName : ProfileNickNames]

NoRequest == [Username |-> <<>>, NickName |-> <<>>]

NoProfile ==
    [Uuid |-> <<>>, DarkMode |-> FALSE,
     Fields |-> [Username |-> Present(Empty), NickName |-> Absent]]

\* uuid.NewRandom(): a fresh identifier for every call
NewRandom(call) == <<"p", 10 + call>>

\* the record the handler builds from the request
BuildProfile(call, req) ==
    [Uuid |-> NewRandom(call), DarkMode |-> TRUE,
     Fields |-> [Username |-> Present(TrimSpace(req.Username)),
                 NickName |-> [Valid |-> StrLen(TrimSpace(req.NickName)) > 0,
                               String |-> TrimSpace(req.NickName)]]]

\* FindProfile: the rows at a blind index
FindProfile(db, index) == {r \in db : r.UserIndex = index}

\* profileStore.GetProfile; findOk is whether the query itself succeeds
StoreGetProfile(db, username, findOk, faults) ==
    LET rows == FindProfile(db, Idx(username))
    IN  IF ~findOk \/ rows = {} THEN [err |-> TRUE, profile |-> NoProfile]
        ELSE LET row == CHOOSE r \in rows : TRUE
                 dec == RunCrypt("DecryptProfile", row.Fields, faults)
             IN  IF dec.err THEN [err |-> TRUE, profile |-> NoProfile]
                 ELSE [err |-> FALSE,
                       profile |-> [Uuid |-> row.Uuid, DarkMode |-> row.DarkMode,
                                    Fields |-> dec.rec]]

SaveProfileNoIndex(db, row) ==
    IF \E r \in db : r.Uuid = row.Uuid
    THEN [err |-> "duplicate", db |-> db]
    ELSE [err |-> "none", db |-> db \cup {row}]

\* SaveProfile: the INSERT, under the primary key and the unique index
\* idx_profile_blind_index
SaveProfile(db, row) ==
    IF \E r \in db : r.Uuid = row.Uuid \/ r.UserIndex = row.UserIndex
    THEN [err |-> "duplicate", db |-> db]
    ELSE [err |-> "none", db |-> db \cup {row}]

BlindIndexInputEncrypted(profile, encrypted) == encrypted.Username.String

\* what profileStore.CreateProfile hands to ObtainBlindIndex: the username
\* as it is before EncryptProfile overwrites the record
BlindIndexInput(profile, encrypted) == profile.Username.String

\* profileStore.CreateProfile: its error ("none", "encrypt", "connection"
\* or "duplicate"), the record after the call (encrypted in place when
\* encryption succeeded) and the table; saveOk is whether the statement
\* reaches the database
StoreCreateProfile(db, profile, faults, saveOk) ==
    LET enc   == RunCrypt("EncryptProfile", profile.Fields, faults)
        index == Idx(BlindIndexInput(profile.Fields, enc.rec))
        row   == [Uuid |-> profile.Uuid, UserIndex |-> index,
                  DarkMode |-> profile.DarkMode, UpdatedAt |-> NowUnix,
                  Fields |-> enc.rec]
        after == [profile EXCEPT !.Fields = enc.rec]
    IN  IF enc.err THEN [err |-> "encrypt", profile |-> profile, db |-> db]
        ELSE IF ~saveOk THEN [err |-> "connection", profile |-> after, db |-> db]
        ELSE LET saved == SaveProfile(db, row)
             IN  [err |-> saved.err, profile |-> after, db |-> saved.db]

\* the UPDATE of profile.sql: nick_name, dark_mode and updated_at of the
\* row with the primary key
UpdateProfileRow(db, profile) ==
    {IF r.Uuid = profile.Uuid
     THEN [r EXCEPT !.Fields.NickName = profile.Fields.NickName,
                    !.DarkMode = profile.DarkMode,
                    !.UpdatedAt = profile.UpdatedAt]
     ELSE r : r \in db}

\* profileStore.UpdateProfile: EncryptProfile on the record, then the
\* UPDATE; updateOk is whether the statement reaches the database
StoreUpdateProfile(db, profile, faults, updateOk) ==
    LET enc == RunCrypt("EncryptProfile", profile.Fields, faults)
    IN  IF enc.err THEN [err |-> "encrypt", db |-> db]
        ELSE IF ~updateOk THEN [err |-> "connection", db |-> db]
        ELSE [err |-> "none",
              db |-> UpdateProfileRow(db, [profile EXCEPT !.Fields = enc.rec])]

UpdateProfileRequests ==
    [Username : ProfileUsernames, NickName : ProfileNickNames, DarkMode : BOOLEAN]

\* what the environment does to a call: whether the SELECT and the UPDATE
\* reach the database, the fields whose decryption or encryption fails
ProfileEnvs ==
    [findOk : BOOLEAN, getFaults : SUBSET {"Username"},
     encFaults : SUBSET {"NickName"}, updateOk : BOOLEAN]

NoEnv == [findOk |-> TRUE, getFaults |-> {}, encFaults |-> {}, updateOk |-> TRUE]

\* the record the UpdateProfile handler hands to the store: the key, the
\* nickname, the display flag (and the time); no other field is set
BuildUpdate(record, req) ==
    [Uuid |-> record.Uuid, DarkMode |-> req.DarkMode, UpdatedAt |-> NowUnix,
     Fields |-> [Username |-> Present(Empty),
                 NickName |-> [Valid |-> StrLen(TrimSpace(req.NickName)) > 0,
                               String |-> TrimSpace(req.NickName)]]]

\* "check if update is necessary" of the UpdateProfile handler
ProfileUnchanged(record, req) ==
    /\ record.Fields.NickName.String = TrimSpace(req.NickName)
    /\ record.DarkMode = req.DarkMode

\* the api.Profile a handler answers with
ProfileMessage(username, nickname, darkMode) ==
    [Username |-> username, NickName |-> nickname, DarkMode |-> darkMode]

\* the UpdateProfile handler from the validation of the request on
UpdateProfileHandler(db, req, env) ==
    LET username == TrimSpace(req.Username)
        got      == StoreGetProfile(db, username, env.findOk, env.getFaults)
        record   == got.profile
        stored   == StoreUpdateProfile(db, BuildUpdate(record, req),
                                       env.encFaults, env.updateOk)
        Fail(code) == [code |-> code, db |-> db, resp |-> NoMessage]
    IN  IF ~ValidateCmd(req) THEN Fail("InvalidArgument")
        ELSE IF got.err
             THEN Fail(IF env.findOk /\ FindProfile(db, Idx(username)) = {}
                       THEN "NotFound" ELSE "Internal")
        ELSE IF ProfileUnchanged(record, req)
             THEN [code |-> "OK", db |-> db,
                   resp |-> ProfileMessage(record.Fields.Username.String,
                                           record.Fields.NickName.String,
                                           record.DarkMode)]
        ELSE IF stored.err # "none" THEN Fail("Internal")
        ELSE [code |-> "OK", db |-> stored.db,
              resp |-> ProfileMessage(record.Fields.Username.String,
                                      TrimSpace(req.NickName), req.DarkMode)]

\* a call: the handler called, where it stands, its request, what the
\* existence check of CreateProfile saw ("absent": no row at the index;
\* "error": the lookup failed), the record as built and as left by the
\* store, the store's error, the status code returned; the rows the
\* trimmed username had when CreateProfile looked; for UpdateProfile the
\* environment and the table before and after
NoProfileCall ==
    [op |-> "none", pc |-> "idle", req |-> NoRequest, checked |-> "none",
     plain |-> NoProfile, record |-> NoProfile, err |-> "none", code |-> "none",
     env |-> NoEnv, before |-> {}, after |-> {}]

ProfileIdle ==
    /\ pDb = {}
    /\ pCalls = [i \in 1..MaxCalls |-> [NoProfileCall EXCEPT !.pc = "off"]]

----------------------------------------------------------------------------
(* SpecGate: one call through the interceptor and, when admitted, through  *)
(* the authorization step of the handler it names.                         *)

GateOwners == {<<"a">>, <<"A">>, <<"sp", "a">>}

NoCall ==
    [hasMD |-> FALSE, fullMethod |-> <<>>, opts |-> NoOptions,
     svcToken |-> NoSvcToken, userToken |-> NoUserToken, tick |-> 0]

GateIdle ==
    /\ gPc = "off"
    /\ gIn = NoCall
    /\ gWhy = "none"
    /\ gCode = "none"
    /\ gCtx = NoContext
    /\ gOwner = <<>>
    /\ gStep = "none"

AzIdle ==
    /\ azAuth = [RequiredScopes |-> <<>>, UserClaims |-> NilClaims,
                 SelfAccessAllowed |-> FALSE]
    /\ azOwner = <<>>
    /\ azResult = "off"

GateInit ==
    /\ gPc = "idle"
    /\ gIn = NoCall
    /\ gWhy = "none"
    /\ gCode = "none"
    /\ gCtx = NoContext
    /\ gOwner = <<>>
    /\ gStep = "none"
    /\ AzIdle
    /\ CryptIdle
    /\ StoreIdle
    /\ ProfileIdle

\* the inputs the interceptor gets to read: without metadata nothing else;
\* the options only of a method the registry knows; the second clock
\* reading only on the path that takes it
OptionsFor(fullMethod) ==
    IF fullMethod \in WellFormedMethods THEN MethodOptions ELSE {NoOptions}

TicksFor(in) ==
    IF Unary([in EXCEPT !.tick = MaxTick]).why \in {"expired", "audience", "user"}
    THEN 0..MaxTick ELSE {0}

GateUnary ==
    /\ gPc = "idle"
    /\ \E hasMD \in BOOLEAN :
       \E fm \in (IF hasMD THEN FullMethods ELSE {<<>>}) :
       \E opts \in (IF hasMD THEN OptionsFor(fm) ELSE {NoOptions}) :
       \E svc \in (IF hasMD THEN SvcTokens ELSE {NoSvcToken}) :
       \E usr \in (IF hasMD THEN UserTokens ELSE {NoUserToken}) :
       \E tick \in TicksFor([hasMD |-> hasMD, fullMethod |-> fm, opts |-> opts,
                             svcToken |-> svc, userToken |-> usr, tick |-> 0]) :
          LET in  == [hasMD |-> hasMD, fullMethod |-> fm, opts |-> opts,
                      svcToken |-> svc, userToken |-> usr, tick |-> tick]
              out == Unary(in)
          IN  /\ gIn' = in
              /\ gWhy' = out.why
              /\ gCode' = out.code
              /\ gCtx' = out.ctx
              /\ gPc' = IF out.invoked THEN "handler" ELSE "done"
    /\ UNCHANGED <<gOwner, gStep, azVars, cVars, sVars, pVars>>

\* the handler the server dispatches the call to reads the request's
\* username and takes its authorization step
HandlerStep(h, username, step) ==
    /\ gPc = "handler"
    /\ parseFullMethod(gIn.fullMethod)[2] = h
    /\ gOwner' = username
    /\ gStep' = step
    /\ gCode' = CASE step = "Proceed" -> "body"
                  [] step = "Panic"   -> "Panic"
                  [] OTHER            -> "PermissionDenied"
    /\ gPc' = "done"
    /\ UNCHANGED <<gIn, gWhy, gCtx, azVars, cVars, sVars, pVars>>

GateCreateProfile ==
    \E u \in GateOwners : HandlerStep("CreateProfile", u, CreateProfileAuthz(gCtx, u))

GateGetProfile ==
    \E u \in GateOwners : HandlerStep("GetProfile", u, GetProfileAuthz(gCtx, u))

GateUpdateProfile ==
    \E u \in GateOwners : HandlerStep("UpdateProfile", u, UpdateProfileAuthz(gCtx, u))

GateCreateAddress ==
    \E u \in GateOwners : HandlerStep("CreateAddress", u, CreateAddressAuthz(gCtx, u))

GateUpdateAddress ==
    \E u \in GateOwners : HandlerStep("UpdateAddress", u, UpdateAddressAuthz(gCtx, u))

GateDeleteAddress ==
    \E u \in GateOwners : HandlerStep("DeleteAddress", u, DeleteAddressAuthz(gCtx, u))

GateCreatePhone ==
    \E u \in GateOwners : HandlerStep("CreatePhone", u, CreatePhoneAuthz(gCtx, u))

GateUpdatePhone ==
    \E u \in GateOwners : HandlerStep("UpdatePhone", u, UpdatePhoneAuthz(gCtx, u))

GateDeletePhone ==
    \E u \in GateOwners : HandlerStep("DeletePhone", u, DeletePhoneAuthz(gCtx, u))

GateNext ==
    \/ GateUnary
    \/ GateCreateProfile
    \/ GateGetProfile
    \/ GateUpdateProfile
    \/ GateCreateAddress
    \/ GateUpdateAddress
    \/ GateDeleteAddress
    \/ GateCreatePhone
    \/ GateUpdatePhone
    \/ GateDeletePhone

SpecGate == GateInit /\ [][GateNext]_vars

----------------------------------------------------------------------------
(* SpecAuthz: AuthorizeRequest applied to every AuthContext and owner.     *)

AzInit ==
    /\ azAuth \in AuthContexts
    /\ azOwner \in Strings
    /\ azResult = "none"
    /\ GateIdle
    /\ CryptIdle
    /\ StoreIdle
    /\ ProfileIdle

AzAuthorize ==
    /\ azResult = "none"
    /\ azResult' = AuthorizeRequest(azAuth, azOwner)
    /\ UNCHANGED <<azAuth, azOwner, gVars, cVars, sVars, pVars>>

AzNext == AzAuthorize

SpecAuthz == AzInit /\ [][AzNext]_vars

\* the user holds at least one scope of the required list
ScopeMatch(policy, claims) ==
    \E i \in 1..Len(policy.RequiredScopes) :
        policy.RequiredScopes[i] \in claims.Scopes

AzDecided == azResult # "none" /\ ~azAuth.UserClaims.isNil

\* C4: AuthorizeRequest on an AuthContext with user claims: a scope match
\* gives Allow whatever the owner and the self-access flag; no scope match
\* and no self-access gives Deny whatever the owner; an empty required list
\* never matches, so without self-access it always denies.
C4_DecisionStructure ==
    AzDecided =>
        /\ ScopeMatch(azAuth, azAuth.UserClaims) => azResult = "Allow"
        /\ (~ScopeMatch(azAuth, azAuth.UserClaims) /\ ~azAuth.SelfAccessAllowed) => azResult \in Denials
        /\ azAuth.RequiredScopes = <<>> =>
              /\ ~hasRequiredScopes(azAuth.RequiredScopes, azAuth.UserClaims.Scopes)
              /\ ~azAuth.SelfAccessAllowed => azResult \in Denials

\* a caller holding one of two required scopes, no self-access, naming
\* someone else, is allowed
C4_Witness ==
    /\ AzDecided
    /\ Len(azAuth.RequiredScopes) = 2
    /\ azAuth.RequiredScopes[1] \notin azAuth.UserClaims.Scopes
    /\ azAuth.RequiredScopes[2] \in azAuth.UserClaims.Scopes
    /\ ~azAuth.SelfAccessAllowed
    /\ azOwner # azAuth.UserClaims.Subject
    /\ azResult = "Allow"

AzSelfOnly ==
    AzDecided /\ ~ScopeMatch(azAuth, azAuth.UserClaims) /\ azAuth.SelfAccessAllowed

\* the safety check as the specification words it: empty, longer than 1000
\* characters, or with a control character other than tab, CR and LF
UnsafeAsStated(s) ==
    \/ s = <<>>
    \/ RuneCount(s) > 1000
    \/ \E i \in 1..Len(s) : IsControl(s[i]) /\ s[i] # "tab"

\* the same of the string without its leading and trailing white space,
\* its length taken in bytes
UnsafeTrimmed(s) ==
    LET t == TrimSpace(s)
    IN  \/ t = <<>>
        \/ StrLen(t) > 1000
        \/ \E i \in 1..Len(t) : IsControl(t[i]) /\ t[i] # "tab"

\* C21 as stated: without a scope match and with self-access allowed,
\* AuthorizeRequest denies every owner that is empty, longer than 1000
\* characters or holds a control character other than tab, CR, LF, even
\* when it equals the subject; it never denies on the safety check a
\* non-empty owner of at most 1000 characters without such characters.
C21_SafetyCheckAsStated ==
    AzSelfOnly =>
        /\ UnsafeAsStated(azOwner) => azResult \in Denials
        /\ ~UnsafeAsStated(azOwner) => azResult # "DenyUnsafe"

\* C21, amended: without a scope match and with self-access allowed,
\* AuthorizeRequest denies every owner that, after its leading and trailing
\* white space is stripped, is empty, longer than 1000 bytes or holds a
\* control character other than tab, CR, LF, even when the owner equals the
\* subject; it never denies on the safety check an owner whose stripped
\* form is non-empty, of at most 1000 bytes and without such characters.
C21_SafetyCheckTrimmed ==
    AzSelfOnly =>
        /\ UnsafeTrimmed(azOwner) => azResult \in Denials
        /\ ~UnsafeTrimmed(azOwner) => azResult # "DenyUnsafe"

\* an owner equal to the subject is denied for the control character in it
C21_Witness ==
    /\ AzSelfOnly
    /\ azOwner = azAuth.UserClaims.Subject
    /\ azOwner = <<"a", "ctl">>
    /\ azResult = "DenyUnsafe"

----------------------------------------------------------------------------
(* Claims about the gate.                                                  *)

GateReturned == gPc \in {"handler", "done"}

HandlerInvoked == gPc = "handler" \/ gStep # "none"

\* the called method is of the right form, names a registered service and
\* one of its methods, and the method declares a policy
PolicyResolved ==
    /\ gIn.hasMD
    /\ gIn.fullMethod \in WellFormedMethods
    /\ gIn.opts.kind = "policy"

\* C1 as stated: whenever the policy of the called method cannot be
\* resolved (bad method form, unknown service, unknown method, no policy
\* declared) the interceptor returns Internal and the handler is never
\* invoked; no call is admitted without a resolved policy.
C1_UnresolvedIsInternal ==
    (GateReturned /\ gIn.hasMD /\ ~PolicyResolved) =>
        (gCode = "Internal" /\ ~HandlerInvoked)

\* the service credential is present and the verifier rejects it
ServiceCredentialFails ==
    /\ gIn.svcToken.present
    /\ \/ gIn.svcToken.kind # "good"
       \/ \A i \in 1..Len(gIn.opts.policy.RequiredScopes) :
              gIn.opts.policy.RequiredScopes[i] \notin gIn.svcToken.Claims.Scopes

\* C2: with a resolved policy, a service credential that is present but
\* fails verification (malformed, bad signature, lacking every required
\* scope) makes the interceptor return Unauthenticated without invoking the
\* handler, whatever the self-access flag and the user credential.
C2_ServiceCredentialFirst ==
    (GateReturned /\ PolicyResolved /\ ServiceCredentialFails) =>
        (gCode = "Unauthenticated" /\ ~HandlerInvoked)

\* a well-formed, signed service token without a required scope is turned
\* away although self-access is allowed and the user token is valid, is
\* addressed to this service and holds the required scope
C2_Witness ==
    /\ GateReturned /\ PolicyResolved /\ ServiceCredentialFails
    /\ gIn.svcToken.kind = "good"
    /\ gIn.opts.policy.SelfAccessAllowed
    /\ gIn.userToken.signed
    /\ gIn.userToken.Claims.IssuedAt = NowUnix
    /\ gIn.userToken.Claims.Expires > NowUnix
    /\ ServiceProfile \in gIn.userToken.Claims.Audiences
    /\ ScopePhone \in gIn.userToken.Claims.Scopes
    /\ gIn.opts.policy.RequiredScopes = <<ScopePhone>>
    /\ gCode = "Unauthenticated"

\* the call passed the verification of both credentials and of the user
\* token's claims
PassedVerification ==
    /\ PolicyResolved
    /\ gIn.svcToken.present
    /\ ~ServiceCredentialFails
    /\ gIn.userToken.present /\ gIn.userToken.parses /\ gIn.userToken.signed
    /\ gIn.userToken.Claims.IssuedAt <= NowUnix + ClockSkew
    /\ gIn.userToken.Claims.Expires >= NowUnix + gIn.tick
    /\ ServiceProfile \in gIn.userToken.Claims.Audiences

\* C3 as stated: of the calls that pass verification with a user
\* credential, the handler is invoked only for those whose user scopes
\* intersect the required scopes or for which self-access is allowed and
\* the target owner equals the subject; the others get PermissionDenied
\* from the interceptor, before the handler runs.
C3_InterceptorDecides ==
    (gPc = "done" /\ PassedVerification) =>
        IF \/ ScopeMatch(gIn.opts.policy, gIn.userToken.Claims)
           \/ (gIn.opts.policy.SelfAccessAllowed
               /\ gOwner = gIn.userToken.Claims.Subject)
        THEN TRUE
        ELSE gWhy # "user" /\ gCode = "PermissionDenied" /\ gStep = "none"

\* C6 as stated: every handler proceeds past its authorization step exactly
\* when AuthorizeRequest allows the AuthContext and the owner named by the
\* request.
C6_HandlersUseEngine ==
    (gStep # "none" /\ ~gCtx.UserClaims.isNil) =>
        (gStep = "Proceed" <=> AuthorizeRequest(gCtx, gOwner) = "Allow")

\* the service credential is there and the verifier accepts it
ServiceCredentialVerifies ==
    /\ PolicyResolved
    /\ gIn.svcToken.present
    /\ ~ServiceCredentialFails

\* the user credential is there, parses and carries a valid signature
SignedUserToken ==
    /\ gIn.userToken.present
    /\ gIn.userToken.parses
    /\ gIn.userToken.signed

\* its expiry lies before the instant at which the interceptor reads the
\* clock for the expiry check
ExpiredToken ==
    /\ SignedUserToken
    /\ gIn.userToken.Claims.Expires < NowUnix + gIn.tick

C14_IssuedAtSkew ==
    (GateReturned /\ SignedUserToken) =>
        /\ gIn.userToken.Claims.IssuedAt > NowUnix + 2 =>
              /\ ~HandlerInvoked
              /\ ServiceCredentialVerifies =>
                    (gWhy = "issuedAt" /\ gCode = "Unauthenticated")
        /\ gIn.userToken.Claims.IssuedAt <= NowUnix + 2 => gWhy # "issuedAt"

\* a token issued 3 seconds ahead is rejected, otherwise in order
C14_Witness ==
    /\ GateReturned /\ ServiceCredentialVerifies /\ SignedUserToken
    /\ gIn.userToken.Claims.IssuedAt = NowUnix + 3
    /\ gIn.userToken.Claims.Expires > NowUnix
    /\ ServiceProfile \in gIn.userToken.Claims.Audiences
    /\ gWhy = "issuedAt"

\* a token issued exactly 2 seconds ahead is admitted
C14_WitnessAtSkew ==
    /\ gPc = "handler" /\ SignedUserToken
    /\ gIn.userToken.Claims.IssuedAt = NowUnix + 2
    /\ gWhy = "user"

\* signed, not expired, and addressed to other services only
WrongAudienceToken ==
    /\ SignedUserToken
    /\ gIn.userToken.Claims.Expires >= NowUnix + gIn.tick
    /\ ServiceProfile \notin gIn.userToken.Claims.Audiences

\* every admitted call that carries user claims names this service among
\* its audiences
AdmittedAudience ==
    (HandlerInvoked /\ ~gCtx.UserClaims.isNil) =>
        ServiceProfile \in gCtx.UserClaims.Audiences

\* C15 as stated: every call that presents a validly signed, unexpired user
\* credential whose audiences do not contain this service is answered
\* PermissionDenied and its handler is not invoked; every admitted call
\* with user claims has this service among its audiences.
C15_AudienceIsPermissionDenied ==
    /\ (GateReturned /\ WrongAudienceToken) =>
          (gCode = "PermissionDenied" /\ ~HandlerInvoked)
    /\ AdmittedAudience

\* C15, amended: every call whose service credential verifies and that
\* presents a validly signed, unexpired user credential, issued at most 2
\* seconds after the current time, whose audiences do not contain this
\* service is answered PermissionDenied and its handler is not invoked,
\* also when the policy allows self-access; every admitted call with user
\* claims has this service among its audiences.
C15_AudienceAfterTimeChecks ==
    /\ (/\ GateReturned /\ ServiceCredentialVerifies /\ WrongAudienceToken
        /\ gIn.userToken.Claims.IssuedAt <= NowUnix + 2) =>
          (gCode = "PermissionDenied" /\ ~HandlerInvoked)
    /\ AdmittedAudience

\* a current token for another service is refused although the policy
\* allows self-access and the token holds the required scope
C15_Witness ==
    /\ GateReturned /\ ServiceCredentialVerifies /\ WrongAudienceToken
    /\ gIn.userToken.Claims.IssuedAt <= NowUnix + 2
    /\ gIn.userToken.Claims.Audiences = {"gallery"}
    /\ gIn.opts.policy.SelfAccessAllowed
    /\ gIn.opts.policy.RequiredScopes = <<ScopePhone>>
    /\ gIn.userToken.Claims.Scopes = {ScopePhone}
    /\ gCode = "PermissionDenied"

\* C16: a call whose service credential verifies against the policy and
\* whose user credential is valid (signed, not premature, not expired,
\* addressed to this service) reaches the handler, once, with an
\* AuthContext that holds the claims of the service credential, the claims
\* of the user credential, and the required scopes and the self-access flag
\* of the resolved policy.
C16_AdmittedContext ==
    (GateReturned /\ PassedVerification) =>
        /\ HandlerInvoked
        /\ gWhy = "user"
        /\ gPc = "handler" => gStep = "none"
        /\ gCtx.SvcClaims = gIn.svcToken.Claims
        /\ gCtx.UserClaims = gIn.userToken.Claims
        /\ gCtx.RequiredScopes = gIn.opts.policy.RequiredScopes
        /\ gCtx.SelfAccessAllowed = gIn.opts.policy.SelfAccessAllowed

\* a user with the required scope calls a method whose policy allows
\* self-access; the service holds another allowed scope of a two-scope
\* policy (the handler has not run yet)
C16_Witness ==
    /\ gPc = "handler" /\ PassedVerification
    /\ gIn.opts.policy.SelfAccessAllowed
    /\ Len(gIn.opts.policy.RequiredScopes) = 2
    /\ gIn.userToken.Claims.Scopes = {ScopePhone}
    /\ gCtx.UserClaims.Scopes = {ScopePhone}
    /\ gCtx.SvcClaims.Scopes # {}
    /\ gCtx.SelfAccessAllowed

\* C17: a call whose service credential verifies, that carries no user
\* credential, on a method whose policy does not allow service-only access
\* is answered Unauthenticated and its handler is not invoked.
C17_UserCredentialRequired ==
    (/\ GateReturned /\ ServiceCredentialVerifies
     /\ ~gIn.userToken.present
     /\ ~gIn.opts.policy.S2SOnlyAllowed) =>
        (gCode = "Unauthenticated" /\ ~HandlerInvoked)

C17_Witness ==
    /\ GateReturned /\ ServiceCredentialVerifies
    /\ ~gIn.userToken.present
    /\ ~gIn.opts.policy.S2SOnlyAllowed
    /\ gIn.opts.policy.SelfAccessAllowed
    /\ gWhy = "noAccessToken"

\* C18 as stated: a call with a resolved policy whose metadata carry no
\* service credential is answered Unauthenticated and its handler is not
\* invoked.
C18_ServiceCredentialRequired ==
    (GateReturned /\ PolicyResolved /\ ~gIn.svcToken.present) =>
        (gCode = "Unauthenticated" /\ ~HandlerInvoked)

\* C19: a call whose service credential verifies, that carries no user
\* credential, on a method whose policy allows service-only access reaches
\* the handler with an AuthContext whose user claims are nil and whose
\* service claims, required scopes and self-access flag are those of the
\* call; only a call without user credential gets nil user claims.
C19_ServiceOnlyContext ==
    /\ (/\ GateReturned /\ ServiceCredentialVerifies
        /\ ~gIn.userToken.present
        /\ gIn.opts.policy.S2SOnlyAllowed) =>
          /\ HandlerInvoked
          /\ gCtx.UserClaims.isNil
          /\ gCtx.UserClaims = NilClaims
          /\ gCtx.SvcClaims = gIn.svcToken.Claims
          /\ gCtx.RequiredScopes = gIn.opts.policy.RequiredScopes
          /\ gCtx.SelfAccessAllowed = gIn.opts.policy.SelfAccessAllowed
    /\ (HandlerInvoked /\ gCtx.UserClaims.isNil) => ~gIn.userToken.present

C19_Witness ==
    /\ gPc = "handler" /\ ServiceCredentialVerifies
    /\ ~gIn.userToken.present
    /\ gIn.opts.policy.S2SOnlyAllowed
    /\ gIn.opts.policy.SelfAccessAllowed
    /\ gWhy = "serviceOnly"
    /\ gCtx.UserClaims.isNil
    /\ gCtx.SvcClaims.Scopes = {ScopeAddress}

\* the user credential is there and is unparseable or badly signed
UnverifiedUserToken ==
    /\ gIn.userToken.present
    /\ (~gIn.userToken.parses \/ ~gIn.userToken.signed)

\* the interceptor's return on this call and on the same call with other
\* claims in the user token
SameOutcomeWith(claims) ==
    LET other == Unary([gIn EXCEPT !.userToken.Claims = claims])
    IN  /\ other.why = gWhy
        /\ other.code = gCode
        /\ other.ctx = gCtx

\* the claims of an unverified token have no bearing on the outcome
ClaimsReadAfterSignature ==
    (gPc \in {"handler", "done"} /\ gStep = "none" /\ UnverifiedUserToken) =>
        \A c \in ForgedClaims : SameOutcomeWith(c)

DeclaredPolicy ==
    /\ GateReturned
    /\ gIn.hasMD
    /\ gIn.fullMethod \in WellFormedMethods
    /\ gIn.opts.kind \in {"policy", "methodOptions"}

\* C29 as stated: for a method with a declared policy getAuthConfig,
\* given "/package.Service/Method", returns without error or crash the
\* declared policy, and the call does not fail at the policy resolution.
C29_PolicyResolved ==
    DeclaredPolicy =>
        /\ getAuthConfig(gIn.fullMethod, gIn.opts) =
              [err |-> "none", policy |-> gIn.opts.policy]
        /\ gWhy \notin {"optionsPanic", "noAuthConfig"}

\* a call the interceptor admitted on the service-only path, whose handler
\* has taken its authorization step
ServiceOnlyHandled ==
    /\ gWhy = "serviceOnly"
    /\ gCtx.UserClaims.isNil
    /\ gStep # "none"

\* C38: for every call admitted on the service-only path (an AuthContext
\* with nil user claims) the handler reached, and AuthorizeRequest on that
\* context, end with a defined result: the handler with its body or a status
\* code, AuthorizeRequest with Allow or a denial; the absent user claims are
\* never dereferenced.
C38_NilClaimsNotDereferenced ==
    ServiceOnlyHandled =>
        /\ gStep \in {"Proceed", "PermissionDenied"}
        /\ gCode \in {"body", "PermissionDenied"}
        /\ AuthorizeRequest(gCtx, gOwner) \in {"Allow"} \cup Denials

----------------------------------------------------------------------------
(* SpecCrypt: record operations of the three cryptors on one record, one   *)
(* after the other; every field's unit is a goroutine of its own.          *)

CryptInit ==
    /\ cKind \in Kinds
    /\ cOrig \in RecordsOf(cKind)
    /\ cRec = cOrig
    /\ cBefore = cOrig
    /\ cOp = "none"
    /\ cUnits = [f \in FieldsOf(cKind) |-> NoUnits]
    /\ cCh = [f \in FieldsOf(cKind) |-> <<>>]
    /\ cErrCh = EmptyBag
    /\ cFaults = {}
    /\ cHist = <<>>
    /\ AzIdle
    /\ GateIdle
    /\ StoreIdle
    /\ ProfileIdle

\* the function up to wg.Wait(): channels made, one goroutine per field
\* that passes its condition, the else branches done.  A record whose
\* operation returned an error is dropped by the caller, so a further
\* operation follows only a successful one.
Begin(op, kind) ==
    /\ cOp = "none"
    /\ cKind = kind
    /\ Len(cHist) < MaxOps
    /\ cHist # <<>> => ~cHist[Len(cHist)].err
    /\ cOp' = op
    /\ cBefore' = cRec
    /\ cUnits' = [f \in FieldsOf(kind) |->
                    [started |-> UnitsStarted(op, f, cRec[f]),
                     running |-> UnitsStarted(op, f, cRec[f])]]
    /\ cCh' = [f \in FieldsOf(kind) |->
                    IF ~Launches(PlanOf(op)[f], cRec[f]) /\ PlanOf(op)[f].else = "sendEmpty"
                    THEN <<Empty>> ELSE <<>>]
    /\ cErrCh' = SendErrors(EmptyBag, MissingFields(op, cRec))
    /\ cFaults' = {}
    /\ UNCHANGED <<cKind, cOrig, cRec, cHist, azVars, gVars, sVars, pVars>>

EncryptPhone == Begin("EncryptPhone", "phone")

DecryptPhone == Begin("DecryptPhone", "phone")

EncryptAddress == Begin("EncryptAddress", "address")

DecryptAddress == Begin("DecryptAddress", "address")

EncryptProfile == Begin("EncryptProfile", "profile")

DecryptProfile == Begin("DecryptProfile", "profile")

\* cryptor.EncryptField: the ciphertext on the field's channel, or an error
\* on errCh; a send on a full channel does not return
EncryptField ==
    /\ cOp # "none" /\ IsEncrypt(cOp)
    /\ \E f \in FieldsOf(cKind) :
          /\ cUnits[f].running > 0
          /\ \E fault \in BOOLEAN :
                IF fault
                THEN /\ BagCardinality(cErrCh) < ErrCapacityOf(cOp, cKind)
                     /\ cErrCh' = SendError(cErrCh, f)
                     /\ cFaults' = cFaults \cup {f}
                     /\ UNCHANGED cCh
                ELSE /\ Len(cCh[f]) < ChanCapacity
                     /\ cCh' = [cCh EXCEPT ![f] = Append(@, Enc(cRec[f].String))]
                     /\ UNCHANGED <<cErrCh, cFaults>>
          /\ cUnits' = [cUnits EXCEPT ![f].running = @ - 1]
    /\ UNCHANGED <<cKind, cOrig, cRec, cBefore, cOp, cHist, azVars, gVars, sVars, pVars>>

\* cryptor.DecryptField: the plaintext on the field's channel, or an error
\* on errCh; a string that is no ciphertext never decrypts
DecryptField ==
    /\ cOp # "none" /\ ~IsEncrypt(cOp)
    /\ \E f \in FieldsOf(cKind) :
          /\ cUnits[f].running > 0
          /\ \E fault \in BOOLEAN :
                IF fault \/ ~IsCipher(cRec[f].String)
                THEN /\ BagCardinality(cErrCh) < ErrCapacityOf(cOp, cKind)
                     /\ cErrCh' = SendError(cErrCh, f)
                     /\ cFaults' = IF fault THEN cFaults \cup {f} ELSE cFaults
                     /\ UNCHANGED cCh
                ELSE /\ Len(cCh[f]) < ChanCapacity
                     /\ cCh' = [cCh EXCEPT ![f] = Append(@, Dec(cRec[f].String))]
                     /\ UNCHANGED <<cErrCh, cFaults>>
          /\ cUnits' = [cUnits EXCEPT ![f].running = @ - 1]
    /\ UNCHANGED <<cKind, cOrig, cRec, cBefore, cOp, cHist, azVars, gVars, sVars, pVars>>

\* wg.Wait() is over: the function returns; the store operation that
\* called it writes the row after a successful encryption (the statement
\* may fail) and returns the record after a successful decryption
Return ==
    /\ cOp # "none"
    /\ \A f \in FieldsOf(cKind) : cUnits[f].running = 0
    /\ LET out == CryptReturn(cOp, cRec, cCh, cErrCh)
       IN  /\ cRec' = out.rec
           /\ \E dbOk \in BOOLEAN :
                 cHist' = Append(cHist,
                     [op |-> cOp, err |-> out.err,
                      failed |-> BagToSet(cErrCh) \ MissingFields(cOp, cRec),
                      joined |-> cErrCh,
                      faults |-> cFaults,
                      missing |-> MissingFields(cOp, cRec),
                      wrote |-> IsEncrypt(cOp) /\ ~out.err /\ dbOk,
                      returned |-> ~IsEncrypt(cOp) /\ ~out.err])
    /\ cOp' = "none"
    /\ UNCHANGED <<cKind, cOrig, cBefore, cUnits, cCh, cErrCh, cFaults, azVars, gVars, sVars, pVars>>

CryptNext ==
    \/ EncryptPhone
    \/ DecryptPhone
    \/ EncryptAddress
    \/ DecryptAddress
    \/ EncryptProfile
    \/ DecryptProfile
    \/ EncryptField
    \/ DecryptField
    \/ Return

SpecCrypt == CryptInit /\ [][CryptNext]_vars

----------------------------------------------------------------------------
(* Claims about the cryptors.                                              *)

CryptReturned == cOp = "none" /\ cHist # <<>>

LastOp == cHist[Len(cHist)]

\* C8: a record operation in which a unit failed or a mandatory field was
\* absent returns an error and leaves every field of the caller's record as
\* it was; the store operation around it then neither writes a row nor
\* returns a record.
C8_AllOrNothing ==
    (CryptReturned /\ (LastOp.failed # {} \/ LastOp.missing # {})) =>
        /\ LastOp.err
        /\ cRec = cBefore
        /\ ~LastOp.wrote
        /\ ~LastOp.returned

\* a stored phone is decrypted; the unit of the phone number fails after
\* the unit of the phone type has delivered its plaintext
C8_Witness ==
    /\ CryptReturned
    /\ Len(cHist) = 2
    /\ LastOp.op = "DecryptPhone"
    /\ LastOp.failed = {"PhoneNumber"}
    /\ cCh["PhoneType"] = <<Plain>>
    /\ LastOp.err
    /\ cRec["PhoneType"] = Present(Enc(Plain))
    /\ cRec = cBefore

\* C9 as stated: decrypting what the encryption of a record produced, with
\* no unit failing, succeeds and gives back the string of every field of
\* the original record, also when optional fields (phone extension, phone
\* country code, address line 2, nickname) are absent.
C9_RoundTrip ==
    (/\ CryptReturned
     /\ Len(cHist) = 2
     /\ IsEncrypt(cHist[1].op) /\ ~cHist[1].err
     /\ ~IsEncrypt(cHist[2].op) /\ cHist[2].faults = {}) =>
        /\ ~cHist[2].err
        /\ \A f \in FieldsOf(cKind) : cRec[f].String = cOrig[f].String

\* the fields of the last operation that failed: the units the
\* environment made fail, the decryption units handed a string that is no
\* ciphertext, and the absent mandatory fields
FailingFields ==
    LastOp.faults \cup LastOp.missing \cup
    {f \in FieldsOf(cKind) :
        /\ ~IsEncrypt(LastOp.op)
        /\ Launches(PlanOf(LastOp.op)[f], cBefore[f])
        /\ ~IsCipher(cBefore[f].String)}

OptionalFields(kind) ==
    CASE kind = "phone"   -> {"CountryCode", "Extension"}
      [] kind = "address" -> {"AddressLine2"}
      [] kind = "profile" -> {"NickName"}

\* a sql.NullString is absent when it is not Valid; the slug and the
\* username are plain strings, absent when empty
IsAbsent(f, field) ==
    IF f \in {"Slug", "Username"} THEN field.String = Empty ELSE ~field.Valid

\* C24 as stated: in every record operation an absent optional field starts
\* no unit, puts no error on the error channel and comes out with the empty
\* string; an absent mandatory field makes the operation return an error.
C24_AbsentFields ==
    CryptReturned =>
        /\ \A f \in OptionalFields(cKind) :
              IsAbsent(f, cBefore[f]) =>
                  /\ cUnits[f].started = 0
                  /\ CopiesIn(f, LastOp.joined) = 0
                  /\ cRec[f].String = Empty
        /\ (\E f \in FieldsOf(cKind) \ OptionalFields(cKind) :
               IsAbsent(f, cBefore[f])) => LastOp.err

----------------------------------------------------------------------------
(* SpecAddressStore: addressStore.decryptAddress on an address row, with   *)
(* the goroutines it starts.                                               *)

\* the rows GetAddress hands over: as EncryptAddress wrote them, with the
\* state column NULL, and the zero Address of a failed query
StoredAddresses ==
    LET written == {RunCrypt("EncryptAddress", r, {}).rec :
                       r \in {a \in AddressRecords :
                                 ~RunCrypt("EncryptAddress", a, {}).err}}
    IN  written \cup {[r EXCEPT !.State = Absent] : r \in written}
                \cup {[f \in FieldsOf("address") |->
                          IF f = "Slug" THEN Present(Empty) ELSE Absent]}

AddressStoreInit ==
    /\ cKind = "address"
    /\ cOrig \in StoredAddresses
    /\ cRec = cOrig
    /\ cBefore = cOrig
    /\ cOp = "none"
    /\ cUnits = [f \in FieldsOf(cKind) |-> NoUnits]
    /\ cCh = [f \in FieldsOf(cKind) |-> <<>>]
    /\ cErrCh = EmptyBag
    /\ cFaults = {}
    /\ cHist = <<>>
    /\ AzIdle
    /\ GateIdle
    /\ StoreIdle
    /\ ProfileIdle

decryptAddress == Begin("decryptAddress", "address")

AddressStoreNext ==
    \/ decryptAddress
    \/ DecryptField
    \/ Return

SpecAddressStore == AddressStoreInit /\ [][AddressStoreNext]_vars

\* the operation has started its units and has not returned
CryptRunning == cOp # "none"

\* C28 as stated: in every interleaving of a record operation one unit is
\* started for each field that passes the operation's condition and none
\* for any other field, never two for one field; and no channel is read
\* and no field of the record is changed while a started unit is still
\* running.
C28_OneUnitPerField ==
    /\ [](CryptRunning =>
            \A f \in FieldsOf(cKind) :
                cUnits[f].started =
                    IF Launches(PlanOf(cOp)[f], cBefore[f]) THEN 1 ELSE 0)
    /\ [][(cHist' # cHist \/ cRec' # cRec) =>
            \A f \in FieldsOf(cKind) : cUnits[f].running = 0]_vars

\* decryptAddress with its goroutines scheduled fairly: a unit that can
\* send does, and wg.Wait() returns once every unit is done
SpecAddressStoreFair ==
    /\ SpecAddressStore
    /\ WF_vars(DecryptField)
    /\ WF_vars(Return)

\* a unit that is still running finds room for its one send, on its
\* result channel and on the error channel
NoSendBlocks ==
    CryptRunning =>
        \A f \in FieldsOf(cKind) :
            cUnits[f].running > 0 =>
                /\ Len(cCh[f]) < ChanCapacity
                /\ BagCardinality(cErrCh) < ErrCapacityOf(cOp, cKind)

\* C33: a record operation terminates in every interleaving: no unit ever
\* finds the channel it sends on full, and the operation, once started,
\* returns.
C33_Terminates ==
    /\ []NoSendBlocks
    /\ (CryptRunning ~> ~CryptRunning)

----------------------------------------------------------------------------
(* SpecStore: one call on a database: the DeletePhone handler, or          *)
(* profileStore.GetCompleteProfile with its decryption goroutines.         *)

StoreInit ==
    /\ sDb \in Databases
    /\ sBefore = sDb
    /\ sPc = "idle"
    /\ sCall = NoStoreCall
    /\ sRows = {}
    /\ sTasks = {}
    /\ sOut = NoOutput
    /\ sErrs = {}
    /\ sDecrypts = EmptyBag
    /\ sResult = NoResult
    /\ AzIdle
    /\ GateIdle
    /\ CryptIdle
    /\ ProfileIdle

\* the delete statements fail or not only when they are reached
ReachesDeletes(db, auth, req) == DeletePhone(db, auth, req, TRUE, TRUE).code = "OK"

CallDeletePhone ==
    /\ sPc = "idle"
    /\ \E auth \in StoreContexts, username \in GateOwners, slug \in SlugInputs :
       LET req == [Username |-> username, PhoneSlug |-> slug] IN
       \E xrefOk \in (IF ReachesDeletes(sDb, auth, req) THEN BOOLEAN ELSE {TRUE}) :
       \E deleteOk \in (IF ReachesDeletes(sDb, auth, req) /\ xrefOk THEN BOOLEAN ELSE {TRUE}) :
          LET out == DeletePhone(sDb, auth, req, xrefOk, deleteOk)
          IN  /\ sCall' = [op |-> "DeletePhone", auth |-> auth, req |-> req,
                           xrefOk |-> xrefOk, deleteOk |-> deleteOk]
              /\ sDb' = out.db
              /\ sResult' = [code |-> out.code]
    /\ sBefore' = sDb
    /\ sPc' = "done"
    /\ UNCHANGED <<sRows, sTasks, sOut, sErrs, sDecrypts, azVars, gVars, cVars, pVars>>

\* the UpdatePhone requests: the number as stored, another one, each also
\* with a blank in it; with and without extension
UpdatePhoneRequests ==
    [Username : GateOwners, PhoneSlug : SlugInputs, CountryCode : {Plain},
     PhoneNumber : {Plain, <<"sp", "x">>, <<"y">>, <<"sp", "y">>},
     Extension : {Empty, Plain},
     PhoneType : {Plain}]

\* what the environment does to an update: the encryption of a field
\* fails, or the UPDATE does not reach the database
UpdateFaults(field) == {<<{}, TRUE>>, <<{field}, TRUE>>, <<{}, FALSE>>}

\* the store call fails or not only when it is reached
CallUpdatePhone ==
    /\ sPc = "idle"
    /\ \E auth \in StoreContexts, req \in UpdatePhoneRequests :
       \E env \in UpdateFaults("PhoneNumber") :
       \E out \in {UpdatePhone(sDb, auth, req, env[1], env[2])} :
          /\ env = <<{}, TRUE>> \/ out.tried
          /\ sCall' = [op |-> "UpdatePhone", auth |-> auth, req |-> req,
                       faults |-> env[1], updateOk |-> env[2]]
          /\ sDb' = out.db
          /\ sResult' = [code |-> out.code, resp |-> out.resp]
    /\ sBefore' = sDb
    /\ sPc' = "done"
    /\ UNCHANGED <<sRows, sTasks, sOut, sErrs, sDecrypts, azVars, gVars, cVars, pVars>>

\* the GetProfile handler from its call of GetCompleteProfile, up to
\* wg.Wait(): the query, the two maps, one goroutine for the profile and
\* one per map entry; an error goes back through the handler
GetCompleteProfile ==
    /\ sPc = "idle"
    /\ \E username \in GateOwners, queryOk \in BOOLEAN :
          LET records == FindProfileAddressPhoneRows(sDb, Idx(username))
          IN  /\ sCall' = [op |-> "GetCompleteProfile", username |-> username,
                           queryOk |-> queryOk]
              /\ IF ~queryOk
                 THEN /\ sResult' = [code |-> "queryError",
                                      status |-> GetProfileStatus("queryError")]
                      /\ sPc' = "done"
                      /\ UNCHANGED <<sRows, sTasks>>
                 ELSE IF Cardinality(records) < 1
                 THEN /\ sResult' = [code |-> "noRows",
                                      status |-> GetProfileStatus("noRows")]
                      /\ sPc' = "done"
                      /\ sRows' = records
                      /\ UNCHANGED sTasks
                 ELSE /\ sRows' = records
                      /\ sTasks' =
                            {[kind |-> "profile", key |-> <<>>,
                              rec |-> (CHOOSE r \in records : TRUE).Profile]}
                            \cup {[kind |-> "address", key |-> k,
                                    rec |-> addressMap(records)[k]] :
                                     k \in DOMAIN addressMap(records)}
                            \cup {[kind |-> "phone", key |-> k,
                                    rec |-> phoneMap(records)[k]] :
                                     k \in DOMAIN phoneMap(records)}
                      /\ sPc' = "decrypting"
                      /\ UNCHANGED sResult
    /\ sBefore' = sDb
    /\ UNCHANGED <<sDb, sOut, sErrs, sDecrypts, azVars, gVars, cVars, pVars>>

\* one decryption goroutine: the cryptor call, whose field units may fail,
\* then the record on the result channel or the error on errCh
DecryptTask(kind, op) ==
    /\ sPc = "decrypting"
    /\ \E t \in sTasks, fail \in BOOLEAN :
          /\ t.kind = kind
          /\ LET faults == IF fail THEN DOMAIN t.rec.Fields ELSE {}
                 out    == RunCrypt(op, t.rec.Fields, faults)
             IN  /\ sDecrypts' = sDecrypts (+) SetToBag({<<kind, t.rec.Uuid>>})
                 /\ IF out.err
                    THEN /\ sErrs' = sErrs \cup {t}
                         /\ UNCHANGED sOut
                    ELSE /\ sOut' = [sOut EXCEPT ![kind] =
                                        @ (+) SetToBag({[t.rec EXCEPT !.Fields = out.rec]})]
                         /\ UNCHANGED sErrs
          /\ sTasks' = sTasks \ {t}
    /\ UNCHANGED <<sDb, sBefore, sPc, sCall, sRows, sResult, azVars, gVars, cVars, pVars>>

DecryptProfileTask == DecryptTask("profile", "DecryptProfile")

DecryptAddressTask == DecryptTask("address", "DecryptAddress")

DecryptPhoneTask == DecryptTask("phone", "DecryptPhone")

CollectWhatDecrypted(errCh, out) ==
    [code |-> "OK", Profile |-> out.profile,
     Addresses |-> out.address, Phones |-> out.phone]

\* after wg.Wait(): the joined errors and no CompleteProfile, or the
\* collected records
CollectResult(errCh, out) ==
    IF Cardinality(errCh) > 0
    THEN [code |-> "decryptError"]
    ELSE [code |-> "OK", Profile |-> out.profile,
          Addresses |-> out.address, Phones |-> out.phone]

Collect ==
    /\ sPc = "decrypting"
    /\ sTasks = {}
    /\ LET out == CollectResult(sErrs, sOut)
       IN  sResult' = out @@ [status |-> GetProfileStatus(out.code)]
    /\ sPc' = "done"
    /\ UNCHANGED <<sDb, sBefore, sCall, sRows, sTasks, sOut, sErrs, sDecrypts,
                   azVars, gVars, cVars, pVars>>

StoreNext ==
    \/ CallDeletePhone
    \/ CallUpdatePhone
    \/ GetCompleteProfile
    \/ DecryptProfileTask
    \/ DecryptAddressTask
    \/ DecryptPhoneTask
    \/ Collect

SpecStore == StoreInit /\ [][StoreNext]_vars

----------------------------------------------------------------------------
(* Claims about the stores.                                                *)

DeletePhoneDone ==
    sPc = "done" /\ sCall.op = "DeletePhone" /\ ~sCall.auth.UserClaims.isNil

\* the caller's token holds the required scope "w:silhouette:phone:*"
HoldsPhoneScope ==
    /\ \E i \in 1..Len(sCall.auth.RequiredScopes) :
          sCall.auth.RequiredScopes[i] = ScopePhone
    /\ ScopePhone \in sCall.auth.UserClaims.Scopes

\* the request names a phone of the named user that can be read back
TargetPhones ==
    {ph \in sBefore.phone :
        /\ IsValidUuid(TrimSpace(sCall.req.PhoneSlug))
        /\ ph \in FindPhoneByUser(sBefore, Idx(TrimSpace(sCall.req.PhoneSlug)),
                                  Idx(TrimSpace(sCall.req.Username)))
        /\ ~RunCrypt("DecryptPhone", ph.Fields, {}).err}

\* a caller with the required scope is never refused, whoever the user is,
\* and deletes the phone and its xref rows when the phone is there and the
\* statements succeed
ScopedCallerDeletes ==
    (DeletePhoneDone /\ HoldsPhoneScope) =>
        /\ sResult.code # "PermissionDenied"
        /\ (TargetPhones # {} /\ sCall.xrefOk /\ sCall.deleteOk) =>
              /\ sResult.code = "OK"
              /\ \A ph \in TargetPhones :
                    /\ ph \notin sDb.phone
                    /\ \A x \in sDb.profile_phone : x.OtherUuid # ph.Uuid

SelfOnlyCaller ==
    /\ DeletePhoneDone
    /\ ~ScopeMatch(sCall.auth, sCall.auth.UserClaims)
    /\ sCall.auth.SelfAccessAllowed

GetCompleteProfileDone ==
    sPc = "done" /\ sCall.op = "GetCompleteProfile" /\ sRows # {}

\* the bag holds exactly one record with this uuid
OnceIn(bag, uuid) ==
    \E e \in BagToSet(bag) :
        /\ e.Uuid = uuid
        /\ CopiesIn(e, bag) = 1
        /\ \A o \in BagToSet(bag) : o.Uuid = uuid => o = e

\* C10: GetCompleteProfile hands the profile and each distinct address and
\* phone of the joined rows to a cryptor exactly once, however many rows
\* repeat them, and a successful result holds each distinct address id and
\* each distinct phone id exactly once.
C10_DistinctOnce ==
    GetCompleteProfileDone =>
        LET addressIds == {r.Address.Uuid : r \in sRows}
            phoneIds   == {r.Phone.Uuid : r \in sRows}
            profileIds == {r.Profile.Uuid : r \in sRows}
        IN  /\ BagToSet(sDecrypts) =
                   {<<"profile", id>> : id \in profileIds}
                   \cup {<<"address", id>> : id \in addressIds}
                   \cup {<<"phone", id>> : id \in phoneIds}
            /\ \A d \in BagToSet(sDecrypts) : CopiesIn(d, sDecrypts) = 1
            /\ sResult.code = "OK" =>
                  /\ \A id \in addressIds : OnceIn(sResult.Addresses, id)
                  /\ \A id \in phoneIds : OnceIn(sResult.Phones, id)
                  /\ BagCardinality(sResult.Addresses) = Cardinality(addressIds)
                  /\ BagCardinality(sResult.Phones) = Cardinality(phoneIds)

\* two addresses and three phones: six rows, six decryptions, two
\* addresses and three phones returned
C10_Witness ==
    /\ GetCompleteProfileDone
    /\ Cardinality(sRows) = 6
    /\ Cardinality({r.Address.Uuid : r \in sRows}) = 2
    /\ Cardinality({r.Phone.Uuid : r \in sRows}) = 3
    /\ sResult.code = "OK"
    /\ BagCardinality(sDecrypts) = 6
    /\ BagCardinality(sResult.Addresses) = 2
    /\ BagCardinality(sResult.Phones) = 3

\* no field of the record holds a ciphertext
Decrypted(rec) == \A f \in DOMAIN rec.Fields : ~IsCipher(rec.Fields[f].String)

\* C22: GetCompleteProfile is all-or-nothing.  When one of the 1 + N + M
\* decryptions (profile, N distinct addresses, M distinct phones) fails,
\* the call returns an error and no CompleteProfile, records that were
\* decrypted included; when none fails it returns the decrypted profile
\* with all N addresses and all M phones.
C22_CompleteOrError ==
    GetCompleteProfileDone =>
        LET n == Cardinality({r.Address.Uuid : r \in sRows})
            m == Cardinality({r.Phone.Uuid : r \in sRows})
        IN  /\ sErrs # {} =>
                  /\ sResult.code = "decryptError"
                  /\ DOMAIN sResult = {"code", "status"}
            /\ sErrs = {} =>
                  /\ sResult.code = "OK"
                  /\ BagCardinality(sResult.Profile) = 1
                  /\ BagCardinality(sResult.Addresses) = n
                  /\ BagCardinality(sResult.Phones) = m
                  /\ \A e \in BagToSet(sResult.Profile) \cup
                              BagToSet(sResult.Addresses) \cup
                              BagToSet(sResult.Phones) : Decrypted(e)

\* of five decryptions one phone's failed; the profile, an address and the
\* other phones were decrypted and are not returned
C22_Witness ==
    /\ GetCompleteProfileDone
    /\ Cardinality(sErrs) = 1
    /\ \E t \in sErrs : t.kind = "phone"
    /\ BagCardinality(sOut.profile) = 1
    /\ BagCardinality(sOut.address) >= 1
    /\ BagCardinality(sOut.phone) >= 2
    /\ sResult.code = "decryptError"

\* none failed: the profile, two addresses and three phones come back
C22_WitnessComplete ==
    /\ GetCompleteProfileDone
    /\ sErrs = {}
    /\ BagCardinality(sResult.Addresses) = 2
    /\ BagCardinality(sResult.Phones) = 3

\* the calls whose lookup matched no row
NoProfileRow ==
    /\ sPc = "done"
    /\ sCall.op = "GetCompleteProfile"
    /\ sCall.queryOk
    /\ FindProfile(sDb.profile, Idx(sCall.username)) = {}

NoPhoneRow ==
    /\ sPc = "done"
    /\ sCall.op = "DeletePhone"
    /\ DeletePhoneAuthz(sCall.auth, sCall.req.Username) = "Proceed"
    /\ IsValidUuid(TrimSpace(sCall.req.PhoneSlug))
    /\ FindPhoneByUser(sBefore, Idx(TrimSpace(sCall.req.PhoneSlug)),
                       Idx(TrimSpace(sCall.req.Username))) = {}

\* C25 as stated: a lookup by blind index that matches no row is answered
\* with NotFound: GetProfile for a username without a profile, and
\* GetUsersPhone (in DeletePhone) for a slug and an owner without a
\* matching phone.
C25_NoRowIsNotFound ==
    /\ NoProfileRow => sResult.status = "NotFound"
    /\ NoPhoneRow => sResult.code = "NotFound"

\* a DeletePhone or UpdatePhone call that the handler's scope test did not
\* let pass and its self-access test did
SelfAccessOnly ==
    /\ sPc = "done"
    /\ sCall.op \in {"DeletePhone", "UpdatePhone"}
    /\ ~sCall.auth.UserClaims.isNil
    /\ sCall.auth.SelfAccessAllowed
    /\ IF sCall.op = "DeletePhone"
       THEN /\ ~ScopeMatch(sCall.auth, sCall.auth.UserClaims)
            /\ DeletePhoneAuthz(sCall.auth, sCall.req.Username) = "Proceed"
       ELSE /\ InlineAll \notin sCall.auth.UserClaims.Scopes
            /\ InlinePhone \notin sCall.auth.UserClaims.Scopes
            /\ UpdatePhoneAuthz(sCall.auth, sCall.req.Username) = "Proceed"

\* the xref rows of the profile whose username is the token subject, and
\* the phones they link to it
OwnLinks ==
    {x \in sBefore.profile_phone :
        \E pr \in sBefore.profile :
            /\ pr.UserIndex = Idx(sCall.auth.UserClaims.Subject)
            /\ x.ProfileUuid = pr.Uuid}

OwnPhones == {ph \in sBefore.phone : \E x \in OwnLinks : x.OtherUuid = ph.Uuid}

\* no phone or xref row but the subject's own is removed or modified, and
\* no row of another table is
OnlyOwnRowsTouched ==
    /\ (sBefore.phone \ sDb.phone) \subseteq OwnPhones
    /\ \A ph \in sDb.phone \ sBefore.phone :
          \E old \in OwnPhones \ sDb.phone : old.Uuid = ph.Uuid
    /\ (sBefore.profile_phone \ sDb.profile_phone) \subseteq OwnLinks
    /\ sDb.profile_phone \subseteq sBefore.profile_phone
    /\ sDb.profile = sBefore.profile
    /\ sDb.address = sBefore.address
    /\ sDb.profile_address = sBefore.profile_address

\* the slug of the request is that of a phone of another user
NamesOthersPhone ==
    \E ph \in sBefore.phone \ OwnPhones :
        ph.SlugIndex = Idx(TrimSpace(sCall.req.PhoneSlug))

\* C30 as stated: a DeletePhone or UpdatePhone call authorized by
\* self-access only removes or modifies no phone or xref row but those
\* linked to the profile of the token subject; when its slug names a phone
\* of another user it returns NotFound and writes nothing.
C30_SelfAccessOwnRows ==
    SelfAccessOnly =>
        /\ OnlyOwnRowsTouched
        /\ NamesOthersPhone => (sResult.code = "NotFound" /\ sDb = sBefore)

\* C30 amended: a DeletePhone or UpdatePhone call authorized by
\* self-access only removes or modifies no phone or xref row but those
\* linked to the profile of the token subject; when its slug names a phone
\* of another user it writes nothing and returns NotFound, or
\* InvalidArgument when the UpdatePhone request does not pass validation.
C30_SelfAccessOwnRowsValidated ==
    SelfAccessOnly =>
        /\ OnlyOwnRowsTouched
        /\ NamesOthersPhone =>
              /\ sDb = sBefore
              /\ IF sCall.op = "UpdatePhone" /\ ~PhoneValidateCmd(sCall.req)
                 THEN sResult.code = "InvalidArgument"
                 ELSE sResult.code = "NotFound"

\* the caller "a", without scope, changes the number of its own first
\* phone: that row alone is rewritten
C30_Witness ==
    /\ SelfAccessOnly
    /\ sCall.op = "UpdatePhone"
    /\ sCall.auth.UserClaims.Scopes = {}
    /\ sCall.req.PhoneSlug = <<"s", "1">>
    /\ sResult.code = "OK"
    /\ Cardinality(sBefore.phone \ sDb.phone) = 1
    /\ \E ph \in sDb.phone \ sBefore.phone : ph.Uuid = <<"h", 1>>

\* the caller "a", without scope, names the phone of "A"
C30_WitnessOther ==
    /\ SelfAccessOnly
    /\ sCall.op = "UpdatePhone"
    /\ sCall.req.PhoneSlug = <<"s", ToString(OtherPhone)>>
    /\ NamesOthersPhone
    /\ sResult.code = "NotFound"
    /\ sDb = sBefore

\* the profile rows, and the addresses and phones linked to them, of a name
ProfileOf(db, username) == FindProfile(db.profile, Idx(username))

AddressLinksOf(db, username) ==
    {pa \in db.profile_address :
        \E p \in ProfileOf(db, username) : pa.ProfileUuid = p.Uuid}

PhoneLinksOf(db, username) ==
    {pp \in db.profile_phone :
        \E p \in ProfileOf(db, username) : pp.ProfileUuid = p.Uuid}

\* a GetCompleteProfile call whose query ran, for a name that has a profile
\* row and no address or no phone
OwnsNoAddressOrNoPhone ==
    /\ sPc = "done"
    /\ sCall.op = "GetCompleteProfile"
    /\ sCall.queryOk
    /\ ProfileOf(sDb, sCall.username) # {}
    /\ \/ AddressLinksOf(sDb, sCall.username) = {}
       \/ PhoneLinksOf(sDb, sCall.username) = {}

\* C37: GetCompleteProfile, and the GetProfile handler on it, for a username
\* whose profile row exists and which owns no address or no phone, succeeds
\* with the profile and an empty address list and/or an empty phone list.
C37_EmptyListsSucceed ==
    OwnsNoAddressOrNoPhone =>
        /\ sResult.code = "OK"
        /\ sResult.status = "OK"
        /\ BagCardinality(sResult.Profile) = 1
        /\ AddressLinksOf(sDb, sCall.username) = {}
              => sResult.Addresses = EmptyBag
        /\ PhoneLinksOf(sDb, sCall.username) = {}
              => sResult.Phones = EmptyBag

----------------------------------------------------------------------------
(* SpecProfile: concurrent CreateProfile calls on the profile table.  A    *)
(* call takes a step at each access to the table: the existence check and  *)
(* the INSERT.                                                             *)

ProfileInit ==
    /\ pDb \in {{}, {ProfileRow(1, <<"a">>)}}
    /\ pCalls = [i \in 1..MaxCalls |-> NoProfileCall]
    /\ AzIdle
    /\ GateIdle
    /\ CryptIdle
    /\ StoreIdle

\* the call arrives at the handler, which validates the request
CreateProfileCall ==
    /\ \E i \in 1..MaxCalls, req \in CreateProfileRequests :
          /\ pCalls[i].pc = "idle"
          /\ pCalls' = [pCalls EXCEPT ![i] =
                IF ValidateCmd(req)
                THEN [@ EXCEPT !.op = "CreateProfile", !.pc = "check", !.req = req]
                ELSE [@ EXCEPT !.op = "CreateProfile", !.pc = "done", !.req = req,
                               !.code = "InvalidArgument"]]
    /\ UNCHANGED <<pDb, azVars, gVars, cVars, sVars>>

\* the existence check: GetProfile by the request's username; only a
\* profile found and decrypted ends the call
CreateProfileCheck ==
    /\ \E i \in 1..MaxCalls, findOk \in BOOLEAN, faults \in SUBSET {"Username"} :
          LET call == pCalls[i]
              got  == StoreGetProfile(pDb, call.req.Username, findOk, faults)
              rows == FindProfile(pDb, Idx(call.req.Username))
          IN  /\ call.pc = "check"
              /\ (rows = {} \/ ~findOk) => faults = {}
              /\ pCalls' = [pCalls EXCEPT ![i] =
                    IF ~got.err
                    THEN [@ EXCEPT !.pc = "done", !.code = "AlreadyExists",
                                   !.before = FindProfile(pDb, Idx(TrimSpace(call.req.Username)))]
                    ELSE [@ EXCEPT !.pc = "persist",
                                   !.before = FindProfile(pDb, Idx(TrimSpace(call.req.Username))),
                                   !.checked = IF findOk /\ rows = {}
                                               THEN "absent" ELSE "error",
                                   !.plain = BuildProfile(i, call.req)]]
    /\ UNCHANGED <<pDb, azVars, gVars, cVars, sVars>>

\* the record is handed to profileStore.CreateProfile
CreateProfilePersist ==
    /\ \E i \in 1..MaxCalls, saveOk \in BOOLEAN,
          faults \in SUBSET {"Username", "NickName"} :
          LET call == pCalls[i]
              out  == StoreCreateProfile(pDb, call.plain, faults, saveOk)
          IN  /\ call.pc = "persist"
              /\ pDb' = out.db
              /\ pCalls' = [pCalls EXCEPT ![i] =
                    [@ EXCEPT !.pc = "done", !.record = out.profile,
                              !.err = out.err,
                              !.code = IF out.err = "none" THEN "OK"
                                       ELSE "Internal"]]
    /\ UNCHANGED <<azVars, gVars, cVars, sVars>>

ProfileNext ==
    \/ CreateProfileCall
    \/ CreateProfileCheck
    \/ CreateProfilePersist

SpecProfile == ProfileInit /\ [][ProfileNext]_vars

----------------------------------------------------------------------------
(* Claims about the profile store.                                         *)

ProfileCreated(i) ==
    pCalls[i].op = "CreateProfile" /\ pCalls[i].pc = "done" /\ pCalls[i].code = "OK"

UsernameOf(row) == Dec(row.Fields.Username.String)

C12_OneRowPerUsername ==
    \A r1, r2 \in pDb : UsernameOf(r1) = UsernameOf(r2) => r1 = r2

\* two calls for the same username both found no row; the INSERT of one
\* succeeded and the INSERT of the other was refused as a duplicate
C12_Witness ==
    \E i, j \in 1..MaxCalls :
        /\ i # j
        /\ pCalls[i].checked = "absent" /\ pCalls[j].checked = "absent"
        /\ pCalls[i].plain.Fields.Username = pCalls[j].plain.Fields.Username
        /\ ProfileCreated(i)
        /\ pCalls[j].pc = "done" /\ pCalls[j].err = "duplicate"
        /\ Cardinality({r \in pDb : UsernameOf(r) = UsernameOf(
                            [Fields |-> pCalls[i].record.Fields])}) = 1

\* a valid CreateProfile request for a username that, trimmed, had a row
\* when the handler looked; the lookup itself did not fail
CreatesExisting(i) ==
    /\ pCalls[i].op = "CreateProfile"
    /\ pCalls[i].pc = "done"
    /\ ValidateCmd(pCalls[i].req)
    /\ pCalls[i].checked # "error"
    /\ pCalls[i].before # {}

\* C27 as stated: a valid CreateProfile request whose trimmed username
\* already has a profile row is answered with AlreadyExists, and no row is
\* written for it.
C27_AlreadyExists ==
    \A i \in 1..MaxCalls :
        CreatesExisting(i) =>
            /\ pCalls[i].code = "AlreadyExists"
            /\ ~\E r \in pDb : r.Uuid = NewRandom(i)

\* C36: a CreateProfile call has written its row only when its existence
\* lookup found that the username has no row; a call whose lookup failed
\* otherwise (the query did not succeed, or the row it found did not
\* decrypt) has returned an error and written nothing.
C36_WritesOnlyWhenAbsent ==
    \A i \in 1..MaxCalls :
        (pCalls[i].op = "CreateProfile" /\ pCalls[i].pc = "done") =>
            /\ (\E r \in pDb : r.Uuid = NewRandom(i)) => pCalls[i].checked = "absent"
            /\ pCalls[i].checked = "error" =>
                  /\ pCalls[i].code \notin {"OK", "none"}
                  /\ ~\E r \in pDb : r.Uuid = NewRandom(i)

----------------------------------------------------------------------------
(* SpecUpdate: one UpdateProfile call on a profile table that             *)
(* CreateProfile filled.                                                   *)

\* the table after CreateProfile succeeded for each of the requests
RECURSIVE TableOf(_)
TableOf(reqs) ==
    IF reqs = <<>> THEN {}
    ELSE StoreCreateProfile(TableOf(Tail(reqs)), BuildProfile(Len(reqs), Head(reqs)),
                            {}, TRUE).db

ProfileTables ==
    {TableOf(reqs) : reqs \in
        {<<>>} \cup {<<r>> : r \in {q \in CreateProfileRequests : ValidateCmd(q)}}
               \cup {<<[Username |-> <<"A">>, NickName |-> <<>>],
                       [Username |-> <<"a">>, NickName |-> n]>> :
                          n \in {<<>>, <<"a", "a">>}}}

UpdateInit ==
    /\ pDb \in ProfileTables
    /\ pCalls = [i \in 1..MaxCalls |-> NoProfileCall]
    /\ AzIdle
    /\ GateIdle
    /\ CryptIdle
    /\ StoreIdle

\* the environment acts only where the handler gets to
ReachesDecrypt(db, req, env) ==
    /\ ValidateCmd(req)
    /\ env.findOk
    /\ FindProfile(db, Idx(TrimSpace(req.Username))) # {}

ReachesUpdate(db, req, env) ==
    /\ ReachesDecrypt(db, req, env)
    /\ env.getFaults = {}
    /\ LET record == StoreGetProfile(db, TrimSpace(req.Username), TRUE, {}).profile
       IN  \/ record.Fields.NickName.String # TrimSpace(req.NickName)
           \/ record.DarkMode # req.DarkMode

\* an UpdateProfile call, whole: validation, GetProfile, the comparison with
\* the stored values, profileStore.UpdateProfile
UpdateProfile ==
    /\ \E req \in UpdateProfileRequests, env \in ProfileEnvs :
          LET out == UpdateProfileHandler(pDb, req, env)
              i   == 1
          IN  /\ pCalls[i].pc = "idle"
              /\ env.findOk \/ ValidateCmd(req)
              /\ env.getFaults = {} \/ ReachesDecrypt(pDb, req, env)
              /\ (env.encFaults = {} /\ env.updateOk) \/ ReachesUpdate(pDb, req, env)
              /\ pDb' = out.db
              /\ pCalls' = [pCalls EXCEPT ![i] =
                    [@ EXCEPT !.op = "UpdateProfile", !.pc = "done", !.req = req,
                              !.code = out.code, !.env = env,
                              !.before = pDb, !.after = out.db]]
    /\ UNCHANGED <<azVars, gVars, cVars, sVars>>

UpdateNext == UpdateProfile

SpecUpdate == UpdateInit /\ [][UpdateNext]_vars

----------------------------------------------------------------------------
(* Claims about UpdateProfile.                                             *)

\* an UpdateProfile call on an existing profile that changes the nickname
\* or the display flag, with the database reachable and no unit failing
UpdatesProfile(i) ==
    LET call == pCalls[i]
        got  == StoreGetProfile(call.before, TrimSpace(call.req.Username), TRUE, {})
    IN  /\ call.op = "UpdateProfile"
        /\ call.pc = "done"
        /\ call.env = NoEnv
        /\ ValidateCmd(call.req)
        /\ ~got.err
        /\ \/ got.profile.Fields.NickName.String # TrimSpace(call.req.NickName)
           \/ got.profile.DarkMode # call.req.DarkMode

\* C26 as stated: such an update succeeds; of the row with the primary key
\* only the nickname and the display flag (and updated-at) are written,
\* its username ciphertext and user index and every other row stay as
\* they were, and GetProfile by the same username then returns the new
\* nickname.
C26_UpdateProfile ==
    \A i \in 1..MaxCalls :
        UpdatesProfile(i) =>
            LET call     == pCalls[i]
                username == TrimSpace(call.req.Username)
                row0     == CHOOSE r \in FindProfile(call.before, Idx(username)) : TRUE
                got      == StoreGetProfile(call.after, username, TRUE, {})
            IN  /\ call.code = "OK"
                /\ \E row1 \in call.after :
                      /\ row1.Uuid = row0.Uuid
                      /\ row1.UserIndex = row0.UserIndex
                      /\ row1.Fields.Username = row0.Fields.Username
                      /\ row1.DarkMode = call.req.DarkMode
                      /\ call.after \ {row1} = call.before \ {row0}
                /\ ~got.err
                /\ got.profile.Fields.NickName.String = TrimSpace(call.req.NickName)

----------------------------------------------------------------------------
(* The handlers that write an entity row and its xref row: CreatePhone,    *)
(* CreateAddress, DeletePhone and DeleteAddress.  A record is its Uuid,    *)
(* its Slug and its fields.                                                *)

MaxEntityCalls == 2

\* uuid.NewRandom(): the identifier and the slug a call generates
NewPhoneId(call) == <<"h", 20 + call>>

NewAddressId(call) == <<"a", 20 + call>>

NewSlug(call) == <<"s", ToString(20 + call)>>

\* the caller of the calls: the user "a", without scope, on a method that
\* allows self-access
EntityCaller ==
    [RequiredScopes |-> <<ScopePhone>>,
     UserClaims |-> [isNil |-> FALSE, Subject |-> <<"a">>, Scopes |-> {}],
     SvcClaims |-> [Subject |-> "gateway", Scopes |-> {ScopePhone}],
     SelfAccessAllowed |-> TRUE]

CreatePhoneRequests ==
    [Username : GateOwners, CountryCode : {Plain}, PhoneNumber : {<<"sp", "y">>},
     Extension : {Empty}, PhoneType : {Plain}]

CreateAddressRequests ==
    [Username : GateOwners, StreetAddress : {<<"sp", "y">>}, StreetAddress_2 : {Empty},
     City : {Plain}, StateProvince : {Plain}, PostalCode : {Plain}, Country : {Plain}]

\* the slugs of the first phone and of the first address of "a"
DeleteRequests == [Username : GateOwners, Slug : {<<"s", "1">>, <<"sa", "1">>}]

\* the record the CreatePhone handler builds
BuildPhone(call, req) ==
    LET countryCode == normalizePhoneNumber(TrimSpace(req.CountryCode))
        phoneNumber == normalizePhoneNumber(TrimSpace(req.PhoneNumber))
        extension   == IF Len(req.Extension) > 0
                       THEN normalizePhoneNumber(TrimSpace(req.Extension))
                       ELSE <<>>
    IN  [Uuid |-> NewPhoneId(call), Slug |-> NewSlug(call),
         Fields |-> [CountryCode |-> Present(countryCode),
                     PhoneNumber |-> Present(phoneNumber),
                     Extension   |-> [String |-> extension, Valid |-> extension # <<>>],
                     PhoneType   |-> Present(TrimSpace(req.PhoneType))]]

\* the record the CreateAddress handler builds: the slug is the identifier
BuildAddress(call, req) ==
    [Uuid |-> NewAddressId(call), Slug |-> NewAddressId(call),
     Fields |-> [Slug         |-> Present(NewAddressId(call)),
                 AddressLine1 |-> Present(TrimSpace(req.StreetAddress)),
                 AddressLine2 |-> [String |-> TrimSpace(req.StreetAddress_2),
                                   Valid |-> req.StreetAddress_2 # <<>>],
                 City    |-> Present(TrimSpace(req.City)),
                 State   |-> Present(TrimSpace(req.StateProvince)),
                 Zip     |-> Present(TrimSpace(req.PostalCode)),
                 Country |-> Present(TrimSpace(req.Country))]]

\* ValidateCmd of the address package: the username as it was sent is an
\* e-mail address and the mandatory fields are filled
AddressValidateCmd(cmd) ==
    /\ IsValidEmail(cmd.Username)
    /\ cmd.StreetAddress # <<>>
    /\ cmd.City # <<>>
    /\ cmd.StateProvince # <<>>
    /\ cmd.PostalCode # <<>>
    /\ cmd.Country # <<>>

\* SavePhone with the slug and the blind index of the slug
SavePhoneWithSlug(db, phone, fields) ==
    LET row == [Uuid |-> phone.Uuid, SlugIndex |-> Idx(phone.Slug),
                UpdatedAt |-> NowUnix, Fields |-> fields]
    IN  IF \E r \in db.phone : r.Uuid = row.Uuid \/ r.SlugIndex = row.SlugIndex
        THEN [err |-> "duplicate", db |-> db]
        ELSE [err |-> "none", db |-> [db EXCEPT !.phone = @ \cup {row}]]

\* SavePhone as phoneStore.CreatePhone calls it: slug and slug_index are
\* not among the parameters it fills and go in as ""; the INSERT is under
\* the primary key and the unique index idx_phone_blind_index
SavePhone(db, phone, fields) ==
    LET row == [Uuid |-> phone.Uuid, SlugIndex |-> Empty,
                UpdatedAt |-> NowUnix, Fields |-> fields]
    IN  IF \E r \in db.phone : r.Uuid = row.Uuid \/ r.SlugIndex = row.SlugIndex
        THEN [err |-> "duplicate", db |-> db]
        ELSE [err |-> "none", db |-> [db EXCEPT !.phone = @ \cup {row}]]

\* phoneStore.CreatePhone: EncryptPhone on the record, in place, then the
\* INSERT; saveOk is whether the statement reaches the database
StoreCreatePhone(db, phone, faults, saveOk) ==
    LET enc   == RunCrypt("EncryptPhone", phone.Fields, faults)
        after == [phone EXCEPT !.Fields = enc.rec]
    IN  IF enc.err THEN [err |-> "encrypt", phone |-> phone, db |-> db]
        ELSE IF ~saveOk THEN [err |-> "connection", phone |-> after, db |-> db]
        ELSE LET saved == SavePhone(db, after, enc.rec)
             IN  [err |-> saved.err, phone |-> after, db |-> saved.db]

\* SaveAddress: the INSERT names neither slug nor slug_index
SaveAddress(db, address, fields) ==
    LET row == [Uuid |-> address.Uuid, SlugIndex |-> Empty,
                UpdatedAt |-> NowUnix,
                Fields |-> [fields EXCEPT !.Slug = Present(Empty)]]
    IN  IF \E r \in db.address : r.Uuid = row.Uuid \/ r.SlugIndex = row.SlugIndex
        THEN [err |-> "duplicate", db |-> db]
        ELSE [err |-> "none", db |-> [db EXCEPT !.address = @ \cup {row}]]

\* addressStore.CreateAddress: EncryptAddress on the record, in place (the
\* slug with it), then the INSERT
StoreCreateAddress(db, address, faults, saveOk) ==
    LET enc   == RunCrypt("EncryptAddress", address.Fields, faults)
        after == [address EXCEPT !.Fields = enc.rec, !.Slug = enc.rec.Slug.String]
    IN  IF enc.err THEN [err |-> "encrypt", address |-> address, db |-> db]
        ELSE IF ~saveOk THEN [err |-> "connection", address |-> after, db |-> db]
        ELSE LET saved == SaveAddress(db, after, enc.rec)
             IN  [err |-> saved.err, address |-> after, db |-> saved.db]

\* AUTO_INCREMENT of the xref tables
NextId(xrefs) ==
    IF xrefs = {} THEN 1
    ELSE 1 + (CHOOSE n \in {x.Id : x \in xrefs} : \A x \in xrefs : x.Id <= n)

\* InsertProfilePhone without the foreign keys
InsertProfilePhoneUnchecked(db, profileId, phoneId, ok) ==
    IF ~ok THEN [err |-> "connection", db |-> db]
    ELSE [err |-> "none",
          db |-> [db EXCEPT !.profile_phone =
                     @ \cup {Xref(NextId(@), profileId, phoneId)}]]

\* InsertProfilePhone under fk_profile_phone_xref and fk_phone_profile_xref
InsertProfilePhone(db, profileId, phoneId, ok) ==
    IF ~ok THEN [err |-> "connection", db |-> db]
    ELSE IF ~(\E pr \in db.profile : pr.Uuid = profileId)
            \/ ~(\E ph \in db.phone : ph.Uuid = phoneId)
         THEN [err |-> "foreignKey", db |-> db]
    ELSE [err |-> "none",
          db |-> [db EXCEPT !.profile_phone =
                     @ \cup {Xref(NextId(@), profileId, phoneId)}]]

\* InsertProfileAddress under fk_profile_address_xref and
\* fk_address_profile_xref
InsertProfileAddress(db, profileId, addressId, ok) ==
    IF ~ok THEN [err |-> "connection", db |-> db]
    ELSE IF ~(\E pr \in db.profile : pr.Uuid = profileId)
            \/ ~(\E ad \in db.address : ad.Uuid = addressId)
         THEN [err |-> "foreignKey", db |-> db]
    ELSE [err |-> "none",
          db |-> [db EXCEPT !.profile_address =
                     @ \cup {Xref(NextId(@), profileId, addressId)}]]

\* DELETE FROM phone / address: refused while an xref row references the row
DeletePhoneStatement(db, uuid, ok) ==
    IF ~ok THEN [err |-> "connection", db |-> db]
    ELSE IF \E x \in db.profile_phone : x.OtherUuid = uuid
         THEN [err |-> "foreignKey", db |-> db]
    ELSE [err |-> "none", db |-> DeletePhoneRow(db, uuid)]

DeleteAddressStatement(db, uuid, ok) ==
    IF ~ok THEN [err |-> "connection", db |-> db]
    ELSE IF \E x \in db.profile_address : x.OtherUuid = uuid
         THEN [err |-> "foreignKey", db |-> db]
    ELSE [err |-> "none", db |-> [db EXCEPT !.address = {a \in @ : a.Uuid # uuid}]]

RemoveAddressXrefByAddress(db, addressId) ==
    [db EXCEPT !.profile_address = {x \in @ : x.OtherUuid # addressId}]

\* the address of a user by its slug: the address rows with the slug index
\* that are linked to the profile with the user index, decrypted
GetUsersAddress(db, slug, username) ==
    LET found == {ad \in db.address :
                    /\ ad.SlugIndex = Idx(slug)
                    /\ \E pa \in db.profile_address, pr \in db.profile :
                          /\ pa.OtherUuid = ad.Uuid
                          /\ pa.ProfileUuid = pr.Uuid
                          /\ pr.UserIndex = Idx(username)}
    IN  IF found = {}
        THEN [err |-> "ErrNoRows", Uuid |-> <<>>, UpdatedAt |-> 0, Fields |-> <<>>]
        ELSE LET address == CHOOSE ad \in found : TRUE
                 dec     == RunCrypt("DecryptAddress", address.Fields, {})
             IN  IF dec.err
                 THEN [err |-> "decrypt", Uuid |-> <<>>, UpdatedAt |-> 0,
                       Fields |-> <<>>]
                 ELSE [err |-> "none", Uuid |-> address.Uuid,
                       UpdatedAt |-> address.UpdatedAt, Fields |-> dec.rec]

\* the api.Phone and the api.Address a handler returns: the fields of the
\* record as they are when the handler returns
PhoneResponse(record) ==
    [PhoneUuid |-> record.Uuid, Slug |-> record.Slug,
     CountryCode |-> record.Fields.CountryCode.String,
     PhoneNumber |-> record.Fields.PhoneNumber.String,
     Extension   |-> record.Fields.Extension.String,
     PhoneType   |-> record.Fields.PhoneType.String]

AddressResponse(record) ==
    [AddressUuid |-> record.Uuid, Slug |-> record.Slug,
     StreetAddress   |-> record.Fields.AddressLine1.String,
     StreetAddress_2 |-> record.Fields.AddressLine2.String,
     City          |-> record.Fields.City.String,
     StateProvince |-> record.Fields.State.String,
     PostalCode    |-> record.Fields.Zip.String,
     Country       |-> record.Fields.Country.String]

\* a call: the handler, where it stands, its request, the profile it
\* found, the record as built and as the store left it, the key of the
\* entity it writes or removes, its response, the error of the last store
\* call and its status code
NoEntityCall ==
    [op |-> "none", pc |-> "idle", req |-> <<>>, profile |-> <<>>,
     plain |-> <<>>, record |-> <<>>, entity |-> <<>>, resp |-> <<>>,
     err |-> "none", code |-> "none"]

Ended(call, op, req, code) ==
    [call EXCEPT !.op = op, !.pc = "done", !.req = req, !.code = code]

----------------------------------------------------------------------------
(* SpecEntity: concurrent CreatePhone, CreateAddress, DeletePhone and      *)
(* DeleteAddress calls on one database.  A call takes a step at each       *)
(* statement that writes; the lookups before the first write read tables   *)
(* no call of these writes in between in a way the lookup could see.       *)

EntityInit ==
    /\ sDb \in {Database(nAddr, nPhone, FALSE, TRUE) : nAddr \in 0..1, nPhone \in 0..1}
    /\ pCalls = [i \in 1..MaxEntityCalls |-> NoEntityCall]
    /\ pDb = {}
    /\ sBefore = sDb
    /\ sPc = "off"
    /\ sCall = NoStoreCall
    /\ sRows = {}
    /\ sTasks = {}
    /\ sOut = NoOutput
    /\ sErrs = {}
    /\ sDecrypts = EmptyBag
    /\ sResult = NoResult
    /\ AzIdle
    /\ GateIdle
    /\ CryptIdle

EntityFrame ==
    UNCHANGED <<pDb, sBefore, sPc, sCall, sRows, sTasks, sOut, sErrs, sDecrypts,
                sResult, azVars, gVars, cVars>>

\* CreatePhone up to phoneStore.CreatePhone
CreatePhoneSave ==
    /\ \E i \in 1..MaxEntityCalls, req \in CreatePhoneRequests,
          findOk \in BOOLEAN, faults \in {{}, {"PhoneNumber"}}, saveOk \in BOOLEAN :
          LET call    == pCalls[i]
              authz   == CreatePhoneAuthz(EntityCaller, req.Username)
              reaches == authz = "Proceed" /\ PhoneValidateCmd(req)
              got     == StoreGetProfile(sDb.profile, req.Username, findOk, {})
              plain   == BuildPhone(i, req)
              out     == StoreCreatePhone(sDb, plain, faults, saveOk)
          IN  /\ call.pc = "idle"
              /\ ~reaches => findOk
              /\ (~reaches \/ got.err) => (faults = {} /\ saveOk)
              /\ faults # {} => saveOk
              /\ IF authz = "Panic"
                 THEN /\ pCalls' = [pCalls EXCEPT ![i] = Ended(call, "CreatePhone", req, "Panic")]
                      /\ sDb' = sDb
                 ELSE IF authz # "Proceed"
                 THEN /\ pCalls' = [pCalls EXCEPT ![i] =
                            Ended(call, "CreatePhone", req, "PermissionDenied")]
                      /\ sDb' = sDb
                 ELSE IF ~PhoneValidateCmd(req)
                 THEN /\ pCalls' = [pCalls EXCEPT ![i] =
                            Ended(call, "CreatePhone", req, "InvalidArgument")]
                      /\ sDb' = sDb
                 ELSE IF got.err
                 THEN /\ pCalls' = [pCalls EXCEPT ![i] =
                            Ended(call, "CreatePhone", req, "Internal")]
                      /\ sDb' = sDb
                 ELSE /\ pCalls' = [pCalls EXCEPT ![i] =
                            [call EXCEPT !.op = "CreatePhone", !.req = req,
                                         !.profile = got.profile.Uuid,
                                         !.plain = plain, !.record = out.phone,
                                         !.entity = plain.Uuid, !.err = out.err,
                                         !.pc = IF out.err = "none" THEN "xref" ELSE "done",
                                         !.code = IF out.err = "none" THEN "none"
                                                  ELSE "Internal"]]
                      /\ sDb' = out.db
    /\ EntityFrame

\* CreatePhone from xrefStore.CreateProfilePhoneXref on: the xref row is
\* given the slug of the record
CreatePhoneXref ==
    /\ \E i \in 1..MaxEntityCalls, ok \in BOOLEAN :
          LET call == pCalls[i]
              out  == InsertProfilePhone(sDb, call.profile, call.record.Slug, ok)
          IN  /\ call.op = "CreatePhone"
              /\ call.pc = "xref"
              /\ sDb' = out.db
              /\ pCalls' = [pCalls EXCEPT ![i] =
                    IF out.err # "none"
                    THEN [call EXCEPT !.pc = "done", !.err = out.err,
                                      !.code = "Internal"]
                    ELSE [call EXCEPT !.pc = "done", !.code = "OK",
                                      !.resp = PhoneResponse(call.record)]]
    /\ EntityFrame

\* CreateAddress up to addressStore.CreateAddress
CreateAddressSave ==
    /\ \E i \in 1..MaxEntityCalls, req \in CreateAddressRequests,
          findOk \in BOOLEAN, faults \in {{}, {"City"}}, saveOk \in BOOLEAN :
          LET call    == pCalls[i]
              authz   == CreateAddressAuthz(EntityCaller, req.Username)
              reaches == authz = "Proceed" /\ AddressValidateCmd(req)
              got     == StoreGetProfile(sDb.profile, req.Username, findOk, {})
              plain   == BuildAddress(i, req)
              out     == StoreCreateAddress(sDb, plain, faults, saveOk)
          IN  /\ call.pc = "idle"
              /\ ~reaches => findOk
              /\ (~reaches \/ got.err) => (faults = {} /\ saveOk)
              /\ faults # {} => saveOk
              /\ IF authz = "Panic"
                 THEN /\ pCalls' = [pCalls EXCEPT ![i] =
                            Ended(call, "CreateAddress", req, "Panic")]
                      /\ sDb' = sDb
                 ELSE IF authz # "Proceed"
                 THEN /\ pCalls' = [pCalls EXCEPT ![i] =
                            Ended(call, "CreateAddress", req, "PermissionDenied")]
                      /\ sDb' = sDb
                 ELSE IF ~AddressValidateCmd(req)
                 THEN /\ pCalls' = [pCalls EXCEPT ![i] =
                            Ended(call, "CreateAddress", req, "InvalidArgument")]
                      /\ sDb' = sDb
                 ELSE IF got.err
                 THEN /\ pCalls' = [pCalls EXCEPT ![i] =
                            Ended(call, "CreateAddress", req, "Internal")]
                      /\ sDb' = sDb
                 ELSE /\ pCalls' = [pCalls EXCEPT ![i] =
                            [call EXCEPT !.op = "CreateAddress", !.req = req,
                                         !.profile = got.profile.Uuid,
                                         !.plain = plain, !.record = out.address,
                                         !.entity = plain.Uuid, !.err = out.err,
                                         !.pc = IF out.err = "none" THEN "xref" ELSE "done",
                                         !.code = IF out.err = "none" THEN "none"
                                                  ELSE "Internal"]]
                      /\ sDb' = out.db
    /\ EntityFrame

\* CreateAddress from xrefStore.CreateProfileAddressXref on
CreateAddressXref ==
    /\ \E i \in 1..MaxEntityCalls, ok \in BOOLEAN :
          LET call == pCalls[i]
              out  == InsertProfileAddress(sDb, call.profile, call.record.Uuid, ok)
          IN  /\ call.op = "CreateAddress"
              /\ call.pc = "xref"
              /\ sDb' = out.db
              /\ pCalls' = [pCalls EXCEPT ![i] =
                    IF out.err # "none"
                    THEN [call EXCEPT !.pc = "done", !.err = out.err,
                                      !.code = "Internal"]
                    ELSE [call EXCEPT !.pc = "done", !.code = "OK",
                                      !.resp = AddressResponse(call.record)]]
    /\ EntityFrame

\* DeletePhone up to phoneStore.GetUsersPhone
DeletePhoneLookup ==
    /\ \E i \in 1..MaxEntityCalls, req \in DeleteRequests :
          LET call  == pCalls[i]
              authz == DeletePhoneAuthz(EntityCaller, req.Username)
              phone == GetUsersPhone(sDb, TrimSpace(req.Slug), TrimSpace(req.Username))
          IN  /\ call.pc = "idle"
              /\ pCalls' = [pCalls EXCEPT ![i] =
                    IF authz = "Panic" THEN Ended(call, "DeletePhone", req, "Panic")
                    ELSE IF authz # "Proceed"
                    THEN Ended(call, "DeletePhone", req, "PermissionDenied")
                    ELSE IF ~IsValidUuid(TrimSpace(req.Slug))
                    THEN Ended(call, "DeletePhone", req, "InvalidArgument")
                    ELSE IF phone.err = "ErrNoRows"
                    THEN Ended(call, "DeletePhone", req, "NotFound")
                    ELSE IF phone.err # "none"
                    THEN Ended(call, "DeletePhone", req, "Internal")
                    ELSE [call EXCEPT !.op = "DeletePhone", !.req = req,
                                      !.pc = "unlink", !.entity = phone.Uuid]]
    /\ sDb' = sDb
    /\ EntityFrame

\* xrefStore.RemovePhoneXrefByPhone
DeletePhoneUnlink ==
    /\ \E i \in 1..MaxEntityCalls, ok \in BOOLEAN :
          LET call == pCalls[i]
          IN  /\ call.op = "DeletePhone"
              /\ call.pc = "unlink"
              /\ sDb' = IF ok THEN RemovePhoneXrefByPhone(sDb, call.entity) ELSE sDb
              /\ pCalls' = [pCalls EXCEPT ![i] =
                    IF ok THEN [call EXCEPT !.pc = "remove"]
                    ELSE [call EXCEPT !.pc = "done", !.err = "connection",
                                      !.code = "Internal"]]
    /\ EntityFrame

\* phoneStore.DeletePhone
DeletePhoneRemove ==
    /\ \E i \in 1..MaxEntityCalls, ok \in BOOLEAN :
          LET call == pCalls[i]
              out  == DeletePhoneStatement(sDb, call.entity, ok)
          IN  /\ call.op = "DeletePhone"
              /\ call.pc = "remove"
              /\ sDb' = out.db
              /\ pCalls' = [pCalls EXCEPT ![i] =
                    [call EXCEPT !.pc = "done", !.err = out.err,
                                 !.code = IF out.err = "none" THEN "OK" ELSE "Internal"]]
    /\ EntityFrame

\* DeleteAddress up to the lookup of the address
DeleteAddressLookup ==
    /\ \E i \in 1..MaxEntityCalls, req \in DeleteRequests :
          LET call    == pCalls[i]
              authz   == DeleteAddressAuthz(EntityCaller, req.Username)
              address == GetUsersAddress(sDb, TrimSpace(req.Slug), TrimSpace(req.Username))
          IN  /\ call.pc = "idle"
              /\ pCalls' = [pCalls EXCEPT ![i] =
                    IF authz = "Panic" THEN Ended(call, "DeleteAddress", req, "Panic")
                    ELSE IF authz # "Proceed"
                    THEN Ended(call, "DeleteAddress", req, "PermissionDenied")
                    ELSE IF ~IsValidUuid(TrimSpace(req.Slug))
                    THEN Ended(call, "DeleteAddress", req, "InvalidArgument")
                    ELSE IF address.err = "ErrNoRows"
                    THEN Ended(call, "DeleteAddress", req, "NotFound")
                    ELSE IF address.err # "none"
                    THEN Ended(call, "DeleteAddress", req, "Internal")
                    ELSE [call EXCEPT !.op = "DeleteAddress", !.req = req,
                                      !.pc = "unlink", !.entity = address.Uuid]]
    /\ sDb' = sDb
    /\ EntityFrame

\* xrefStore.RemoveAddressXrefByAddress
DeleteAddressUnlink ==
    /\ \E i \in 1..MaxEntityCalls, ok \in BOOLEAN :
          LET call == pCalls[i]
          IN  /\ call.op = "DeleteAddress"
              /\ call.pc = "unlink"
              /\ sDb' = IF ok THEN RemoveAddressXrefByAddress(sDb, call.entity) ELSE sDb
              /\ pCalls' = [pCalls EXCEPT ![i] =
                    IF ok THEN [call EXCEPT !.pc = "remove"]
                    ELSE [call EXCEPT !.pc = "done", !.err = "connection",
                                      !.code = "Internal"]]
    /\ EntityFrame

\* addressStore.DeleteAddress
DeleteAddressRemove ==
    /\ \E i \in 1..MaxEntityCalls, ok \in BOOLEAN :
          LET call == pCalls[i]
              out  == DeleteAddressStatement(sDb, call.entity, ok)
          IN  /\ call.op = "DeleteAddress"
              /\ call.pc = "remove"
              /\ sDb' = out.db
              /\ pCalls' = [pCalls EXCEPT ![i] =
                    [call EXCEPT !.pc = "done", !.err = out.err,
                                 !.code = IF out.err = "none" THEN "OK" ELSE "Internal"]]
    /\ EntityFrame

EntityNext ==
    \/ CreatePhoneSave
    \/ CreatePhoneXref
    \/ CreateAddressSave
    \/ CreateAddressXref
    \/ DeletePhoneLookup
    \/ DeletePhoneUnlink
    \/ DeletePhoneRemove
    \/ DeleteAddressLookup
    \/ DeleteAddressUnlink
    \/ DeleteAddressRemove

SpecEntity == EntityInit /\ [][EntityNext]_vars

----------------------------------------------------------------------------
(* Claims about the entity rows and their xref rows.                       *)

\* call i is a CreatePhone that has returned, with its phone row stored and
\* no statement of it lost to the connection
CreatePhoneStored(i) ==
    /\ pCalls[i].op = "CreatePhone"
    /\ pCalls[i].pc = "done"
    /\ pCalls[i].err \notin {"connection", "encrypt", "duplicate"}
    /\ \E ph \in sDb.phone : ph.Uuid = pCalls[i].entity

\* C31: a CreatePhone for user u whose statements reached the database has
\* succeeded; its xref row links the profile of u to the primary key of
\* the new phone row, which carries the blind index of the new slug, so
\* that GetUsersPhone with the slug of the call and u finds that phone, and
\* no other.
C31_CreatedPhoneIsFound ==
    \A i \in 1..MaxEntityCalls :
        CreatePhoneStored(i) =>
            LET call == pCalls[i]
                u    == TrimSpace(call.req.Username)
            IN  /\ call.code = "OK"
                /\ \E x \in sDb.profile_phone :
                      x.ProfileUuid = call.profile /\ x.OtherUuid = call.entity
                /\ \A ph \in sDb.phone :
                      ph.Uuid = call.entity => ph.SlugIndex = Idx(call.plain.Slug)
                /\ GetUsersPhone(sDb, call.plain.Slug, u).err = "none"
                /\ GetUsersPhone(sDb, call.plain.Slug, u).Uuid = call.entity

\* the response that carries the fields of the record as the handler
\* built it from the request
PlainResponse(call) ==
    IF call.op = "CreatePhone" THEN PhoneResponse(call.plain)
    ELSE AddressResponse(call.plain)

\* C32: the response of a successful CreatePhone or CreateAddress carries,
\* field by field, the normalised plaintext of the request, and no
\* ciphertext.
C32_ResponseIsPlaintext ==
    \A i \in 1..MaxEntityCalls :
        LET call == pCalls[i]
        IN  (call.op \in {"CreatePhone", "CreateAddress"}
             /\ call.pc = "done" /\ call.code = "OK") =>
                /\ call.resp = PlainResponse(call)
                /\ \A f \in DOMAIN call.resp : ~IsCipher(call.resp[f])

\* no call stands between two of its statements
Quiescent == \A i \in 1..MaxEntityCalls : pCalls[i].pc \in {"idle", "done"}

\* the entity row of a call is stored; an xref row references it
EntityStored(call) ==
    IF call.op \in {"CreatePhone", "DeletePhone"}
    THEN \E ph \in sDb.phone : ph.Uuid = call.entity
    ELSE \E ad \in sDb.address : ad.Uuid = call.entity

EntityLinked(call) ==
    IF call.op \in {"CreatePhone", "DeletePhone"}
    THEN \E x \in sDb.profile_phone : x.OtherUuid = call.entity
    ELSE \E x \in sDb.profile_address : x.OtherUuid = call.entity

\* C34: when a CreatePhone, CreateAddress, DeletePhone or DeleteAddress
\* call has returned an error, and no other call is under way, the store
\* holds the entity row of the call together with an xref row of it, or
\* neither: no entity row is left without xref row.
C34_AllOrNothing ==
    Quiescent =>
        \A i \in 1..MaxEntityCalls :
            LET call == pCalls[i]
            IN  (call.pc = "done" /\ call.code \notin {"OK", "none"}) =>
                    (EntityStored(call) <=> EntityLinked(call))

\* C35: in every state of every interleaving of the four handlers, every
\* xref row references a stored profile row and a stored phone or address
\* row by their primary keys.
C35_XrefsReference ==
    /\ \A x \in sDb.profile_phone :
          /\ \E pr \in sDb.profile : pr.Uuid = x.ProfileUuid
          /\ \E ph \in sDb.phone : ph.Uuid = x.OtherUuid
    /\ \A x \in sDb.profile_address :
          /\ \E pr \in sDb.profile : pr.Uuid = x.ProfileUuid
          /\ \E ad \in sDb.address : ad.Uuid = x.OtherUuid

\* an address created by one call is linked while another call has removed
\* the xref row of the first phone and not yet the phone
C35_Witness ==
    /\ \E i \in 1..MaxEntityCalls :
          /\ pCalls[i].op = "CreateAddress"
          /\ pCalls[i].code = "OK"
          /\ \E x \in sDb.profile_address : x.OtherUuid = pCalls[i].entity
    /\ \E j \in 1..MaxEntityCalls :
          /\ pCalls[j].op = "DeletePhone"
          /\ pCalls[j].pc = "remove"
          /\ \E ph \in sDb.phone : ph.Uuid = pCalls[j].entity

----------------------------------------------------------------------------
(* SpecUpdates: the three update handlers, each called once on a database  *)
(* of profiles, addresses and phones.                                      *)

\* the UpdateAddress requests: the street as stored, another one, one with
\* a leading blank; the slug of the first address of "a" (also with a
\* leading blank) and of no address
UpdateAddressRequests ==
    [Username : GateOwners, Slug : {<<"sa", "1">>, <<"sp", "sa", "1">>, <<"sa", "0">>},
     StreetAddress : {Plain, <<"y">>, <<"sp", "x">>}, StreetAddress_2 : {Empty},
     City : {Plain}, StateProvince : {Plain}, PostalCode : {Plain}, Country : {Plain}]

\* the record the UpdateAddress handler hands to the store
BuildAddressUpdate(record, req) ==
    LET streetAddress   == TrimSpace(req.StreetAddress)
        streetAddress_2 == IF Len(req.StreetAddress_2) > 0
                           THEN TrimSpace(req.StreetAddress_2) ELSE <<>>
        city            == TrimSpace(req.City)
        stateProvince   == TrimSpace(req.StateProvince)
        postalCode      == TrimSpace(req.PostalCode)
        country         == TrimSpace(req.Country)
    IN  [Uuid |-> record.Uuid, UpdatedAt |-> NowUnix,
         Fields |-> [Slug         |-> record.Fields.Slug,
                     AddressLine1 |-> [String |-> streetAddress, Valid |-> streetAddress # <<>>],
                     AddressLine2 |-> [String |-> streetAddress_2, Valid |-> streetAddress_2 # <<>>],
                     City         |-> [String |-> city, Valid |-> city # <<>>],
                     State        |-> [String |-> stateProvince, Valid |-> stateProvince # <<>>],
                     Zip          |-> [String |-> postalCode, Valid |-> postalCode # <<>>],
                     Country      |-> [String |-> country, Valid |-> country # <<>>]]]

\* "check if update necessary" of the UpdateAddress handler (every address
\* of the model is current, and so is every request)
AddressUnchanged(record, updated) ==
    \A f \in DOMAIN record.Fields \ {"Slug"} :
        updated.Fields[f].String = record.Fields[f].String

\* the api.Address a handler answers with
AddressMessage(uuid, slug, record) ==
    [Uuid |-> uuid, Slug |-> slug,
     StreetAddress   |-> record.Fields.AddressLine1.String,
     StreetAddress_2 |-> record.Fields.AddressLine2.String,
     City          |-> record.Fields.City.String,
     StateProvince |-> record.Fields.State.String,
     PostalCode    |-> record.Fields.Zip.String,
     Country       |-> record.Fields.Country.String,
     UpdatedAt     |-> record.UpdatedAt]

\* the UPDATE of the address with the primary key: the six columns and
\* updated_at
UpdateAddressRow(db, address) ==
    [db EXCEPT !.address =
        {IF ad.Uuid = address.Uuid
         THEN [ad EXCEPT !.Fields = [address.Fields EXCEPT !.Slug = ad.Fields.Slug],
                         !.UpdatedAt = address.UpdatedAt]
         ELSE ad : ad \in @}]

\* addressStore.UpdateAddress: EncryptAddress on the record, in place, then
\* the UPDATE
StoreUpdateAddress(db, address, faults, updateOk) ==
    LET enc   == RunCrypt("EncryptAddress", address.Fields, faults)
        after == [address EXCEPT !.Fields = enc.rec]
    IN  IF enc.err THEN [err |-> "encrypt", address |-> address, db |-> db]
        ELSE IF ~updateOk THEN [err |-> "connection", address |-> after, db |-> db]
        ELSE [err |-> "none", address |-> after, db |-> UpdateAddressRow(db, after)]

\* the UpdateAddress handler; the address is looked up by the slug and the
\* username as they were sent; the answer of a write is made of the record
\* the store was handed; tried says whether addressStore.UpdateAddress was
\* called
UpdateAddress(db, auth, req, faults, updateOk) ==
    LET authz   == UpdateAddressAuthz(auth, req.Username)
        record  == GetUsersAddress(db, req.Slug, req.Username)
        updated == BuildAddressUpdate(record, req)
        stored  == StoreUpdateAddress(db, updated, faults, updateOk)
        Fail(code) == [code |-> code, db |-> db, resp |-> NoMessage, tried |-> FALSE]
    IN  IF authz = "Panic" THEN Fail("Panic")
        ELSE IF authz # "Proceed" THEN Fail("PermissionDenied")
        ELSE IF ~AddressValidateCmd(req) THEN Fail("InvalidArgument")
        ELSE IF ~IsValidUuid(TrimSpace(req.Slug)) THEN Fail("InvalidArgument")
        ELSE IF record.err = "ErrNoRows" THEN Fail("NotFound")
        ELSE IF record.err # "none" THEN Fail("Internal")
        ELSE IF AddressUnchanged(record, updated)
             THEN [code |-> "OK", db |-> db, tried |-> FALSE,
                   resp |-> AddressMessage(record.Uuid, record.Fields.Slug.String, record)]
        ELSE IF stored.err # "none"
             THEN [code |-> "Internal", db |-> db, resp |-> NoMessage, tried |-> TRUE]
        ELSE [code |-> "OK", db |-> stored.db, tried |-> TRUE,
              resp |-> AddressMessage(record.Uuid, record.Fields.Slug.String,
                                      stored.address)]

\* the store call fails or not only when it is reached
CallUpdateAddress ==
    /\ sPc = "idle"
    /\ \E auth \in StoreContexts, req \in UpdateAddressRequests :
       \E env \in UpdateFaults("AddressLine1") :
       \E out \in {UpdateAddress(sDb, auth, req, env[1], env[2])} :
          /\ env = <<{}, TRUE>> \/ out.tried
          /\ sCall' = [op |-> "UpdateAddress", auth |-> auth, req |-> req,
                       faults |-> env[1], updateOk |-> env[2]]
          /\ sDb' = out.db
          /\ sResult' = [code |-> out.code, resp |-> out.resp]
    /\ sBefore' = sDb
    /\ sPc' = "done"
    /\ UNCHANGED <<sRows, sTasks, sOut, sErrs, sDecrypts, azVars, gVars, cVars, pVars>>

\* the UpdateProfile handler, whole: its authorization step, then the
\* validation, GetProfile, the comparison and profileStore.UpdateProfile on
\* the profile table
UpdateProfileCall(db, auth, req, env) ==
    LET authz == UpdateProfileAuthz(auth, req.Username)
        out   == UpdateProfileHandler(db.profile, req, env)
    IN  IF authz = "Panic" THEN [code |-> "Panic", db |-> db, resp |-> NoMessage]
        ELSE IF authz # "Proceed"
             THEN [code |-> "PermissionDenied", db |-> db, resp |-> NoMessage]
        ELSE [code |-> out.code, db |-> [db EXCEPT !.profile = out.db],
              resp |-> out.resp]

CallUpdateProfile ==
    /\ sPc = "idle"
    /\ \E auth \in StoreContexts, req \in UpdateProfileRequests, env \in ProfileEnvs :
       \E out \in {UpdateProfileCall(sDb, auth, req, env)} :
       \E proceed \in {UpdateProfileAuthz(auth, req.Username) = "Proceed"} :
          /\ env.findOk \/ (proceed /\ ValidateCmd(req))
          /\ env.getFaults = {} \/ (proceed /\ ReachesDecrypt(sDb.profile, req, env))
          /\ (env.encFaults = {} /\ env.updateOk)
                \/ (proceed /\ ReachesUpdate(sDb.profile, req, env))
          /\ sCall' = [op |-> "UpdateProfile", auth |-> auth, req |-> req, env |-> env]
          /\ sDb' = out.db
          /\ sResult' = [code |-> out.code, resp |-> out.resp]
    /\ sBefore' = sDb
    /\ sPc' = "done"
    /\ UNCHANGED <<sRows, sTasks, sOut, sErrs, sDecrypts, azVars, gVars, cVars, pVars>>

UpdatesNext ==
    \/ CallUpdatePhone
    \/ CallUpdateAddress
    \/ CallUpdateProfile

SpecUpdates == StoreInit /\ [][UpdatesNext]_vars

----------------------------------------------------------------------------
(* Claims about the update handlers.                                       *)

\* the decrypted columns of a row
DecryptedRow(op, row) == [row EXCEPT !.Fields = RunCrypt(op, row.Fields, {}).rec]

\* an UpdatePhone call that got to the comparison, the phone row it found
\* and whether the normalised fields of the request are those of the row
PhoneCompared ==
    /\ sPc = "done"
    /\ sCall.op = "UpdatePhone"
    /\ UpdatePhoneAuthz(sCall.auth, sCall.req.Username) = "Proceed"
    /\ PhoneValidateCmd(sCall.req)
    /\ IsValidUuid(TrimSpace(sCall.req.PhoneSlug))
    /\ FindPhoneByUser(sBefore, Idx(sCall.req.PhoneSlug), Idx(sCall.req.Username)) # {}

StoredPhone ==
    DecryptedRow("DecryptPhone",
              CHOOSE ph \in FindPhoneByUser(sBefore, Idx(sCall.req.PhoneSlug),
                                            Idx(sCall.req.Username)) : TRUE)

SamePhone ==
    /\ PhoneCompared
    /\ normalizePhoneNumber(TrimSpace(sCall.req.CountryCode))
          = StoredPhone.Fields.CountryCode.String
    /\ normalizePhoneNumber(TrimSpace(sCall.req.PhoneNumber))
          = StoredPhone.Fields.PhoneNumber.String
    /\ normalizePhoneNumber(TrimSpace(sCall.req.Extension))
          = StoredPhone.Fields.Extension.String
    /\ sCall.req.PhoneType = StoredPhone.Fields.PhoneType.String

\* the same for UpdateAddress
AddressCompared ==
    /\ sPc = "done"
    /\ sCall.op = "UpdateAddress"
    /\ UpdateAddressAuthz(sCall.auth, sCall.req.Username) = "Proceed"
    /\ AddressValidateCmd(sCall.req)
    /\ IsValidUuid(TrimSpace(sCall.req.Slug))
    /\ GetUsersAddress(sBefore, sCall.req.Slug, sCall.req.Username).err = "none"

StoredAddress ==
    DecryptedRow("DecryptAddress",
              CHOOSE ad \in sBefore.address :
                 ad.Uuid = GetUsersAddress(sBefore, sCall.req.Slug,
                                           sCall.req.Username).Uuid)

SameAddress ==
    /\ AddressCompared
    /\ TrimSpace(sCall.req.StreetAddress) = StoredAddress.Fields.AddressLine1.String
    /\ TrimSpace(sCall.req.StreetAddress_2) = StoredAddress.Fields.AddressLine2.String
    /\ TrimSpace(sCall.req.City) = StoredAddress.Fields.City.String
    /\ TrimSpace(sCall.req.StateProvince) = StoredAddress.Fields.State.String
    /\ TrimSpace(sCall.req.PostalCode) = StoredAddress.Fields.Zip.String
    /\ TrimSpace(sCall.req.Country) = StoredAddress.Fields.Country.String

\* the same for UpdateProfile, whose lookup is by the trimmed username
ProfileCompared ==
    /\ sPc = "done"
    /\ sCall.op = "UpdateProfile"
    /\ UpdateProfileAuthz(sCall.auth, sCall.req.Username) = "Proceed"
    /\ ValidateCmd(sCall.req)
    /\ sCall.env.findOk
    /\ sCall.env.getFaults = {}
    /\ FindProfile(sBefore.profile, Idx(TrimSpace(sCall.req.Username))) # {}

StoredProfile ==
    DecryptedRow("DecryptProfile",
              CHOOSE pr \in FindProfile(sBefore.profile,
                                        Idx(TrimSpace(sCall.req.Username))) : TRUE)

SameProfile ==
    /\ ProfileCompared
    /\ TrimSpace(sCall.req.NickName) = StoredProfile.Fields.NickName.String
    /\ sCall.req.DarkMode = StoredProfile.DarkMode

\* C39: an UpdatePhone, UpdateAddress or UpdateProfile request whose
\* normalised fields all equal the decrypted fields of the stored record
\* succeeds, returns the stored record and writes nothing: every row, its
\* updated-at included, is as it was before the call.
C39_NoChangeNoWrite ==
    /\ SamePhone =>
          /\ sResult.code = "OK"
          /\ sResult.resp =
                [Uuid |-> StoredPhone.Uuid,
                 CountryCode |-> StoredPhone.Fields.CountryCode.String,
                 PhoneNumber |-> StoredPhone.Fields.PhoneNumber.String,
                 Extension   |-> StoredPhone.Fields.Extension.String,
                 PhoneType   |-> StoredPhone.Fields.PhoneType.String,
                 UpdatedAt   |-> StoredPhone.UpdatedAt]
          /\ sDb = sBefore
    /\ SameAddress =>
          /\ sResult.code = "OK"
          /\ sResult.resp =
                [Uuid |-> StoredAddress.Uuid,
                 Slug |-> StoredAddress.Fields.Slug.String,
                 StreetAddress   |-> StoredAddress.Fields.AddressLine1.String,
                 StreetAddress_2 |-> StoredAddress.Fields.AddressLine2.String,
                 City          |-> StoredAddress.Fields.City.String,
                 StateProvince |-> StoredAddress.Fields.State.String,
                 PostalCode    |-> StoredAddress.Fields.Zip.String,
                 Country       |-> StoredAddress.Fields.Country.String,
                 UpdatedAt     |-> StoredAddress.UpdatedAt]
          /\ sDb = sBefore
    /\ SameProfile =>
          /\ sResult.code = "OK"
          /\ sResult.resp =
                [Username |-> StoredProfile.Fields.Username.String,
                 NickName |-> StoredProfile.Fields.NickName.String,
                 DarkMode |-> StoredProfile.DarkMode]
          /\ sDb = sBefore

\* an UpdatePhone request with blanks around the stored number is answered
\* with the stored phone, whose row keeps its updated-at
C39_Witness ==
    /\ SamePhone
    /\ sCall.req.PhoneNumber = <<"sp", "x">>
    /\ sResult.code = "OK"
    /\ sResult.resp.UpdatedAt = 0
    /\ sDb = sBefore

C39_WitnessAddress ==
    /\ SameAddress
    /\ sCall.req.StreetAddress = <<"sp", "x">>
    /\ sResult.code = "OK"
    /\ sDb = sBefore

C39_WitnessProfile ==
    /\ SameProfile
    /\ sCall.req.Username = <<"sp", "a">>
    /\ sResult.code = "OK"
    /\ sDb = sBefore

====
